---- MODULE Spec2Model ----
(***************************************************************************)
(* A model of ufora-cli (src/ufora_cli/cli.py).                            *)
(*                                                                         *)
(* SpecAuth    : UforaSession - load_cookies, is_authenticated,            *)
(*               login_with_browser, refresh_session_with_persistent_      *)
(*               cookies, ensure_authenticated, one action per statement   *)
(*               group that can succeed or raise.                          *)
(* SpecCourses : UforaCourses.get_courses - API version probing and        *)
(*               bookmark pagination.                                      *)
(* SpecCoursesFair : get_courses under weak fairness of its own steps.     *)
(* SpecRecord  : one enrollment item turned into a course record.          *)
(* SpecContent : the courses command and the saved list, materials and     *)
(*               download up to get_course_content.                        *)
(* SpecDownload : download_materials and download_file.                    *)
(* SpecTimetable : timeedit_parser.py - parse, save, load.                 *)
(***************************************************************************)
EXTENDS Integers, Sequences, FiniteSets, TLC

VARIABLES
    \* ---- UforaSession -------------------------------------------------
    cmd,         \* entry point of the running command: "none" | "login" | "ensure"
    pc,          \* position of the running command
    twofa,       \* config['2fa_method']: "app" | "sms"
    cookieFile,  \* COOKIES_FILE: [state: "absent" | "corrupt" | "ok", jar]
    jar,         \* self.session.cookies: cookie name -> value ("none" when not set)
    jar0,        \* jar when the running login/refresh call started
    file0,       \* cookieFile when the running login/refresh call started
    pw,          \* the sync_playwright() block: "off" | "running" | "stopped"
    browser,     \* the launched browser: "none" | "open" | "closed" (browser.close() ran)
    url,         \* page.url of the browser, NoUrl before the first navigation
    ctxCookies,  \* the list context.cookies() returned
    copyIdx,     \* index of the next cookie the copy loop sets
    reached,     \* login: page.wait_for_url(LOGGED_IN_URL) returned
    loaded,      \* result of load_cookies in this call: "none" | "true" | "false"
    probe,       \* result of is_authenticated in this call: "none" | "true" | "false"
    probeUrl,    \* response.url of the probe, NoUrl when the request raised
    refresh,     \* refresh_session_...: "none" | "started" | "true" | "false" | "raised"
    login,       \* login_with_browser: "none" | "started" | "success" | "failed" | "raised"
    ensure,      \* ensure_authenticated: "none" | "started" | "returned" | "raised"
    \* ---- UforaCourses.get_courses ---------------------------------------
    gpc,         \* "idle" | "versions" | "check" | "loop" | "page" | "next" | "done"
    verIdx,      \* index in api_versions of the version requested next
    apiUrl,      \* the version in the local `api_url`, "none" before the loop
    response,    \* the local `response`: NoResponse, or [status, body]
    requests,    \* every request issued so far: [ver, bookmark]
    verStatus,   \* the status codes the version requests got, in order
    pages,       \* every body response.json() parsed, in order
    courses,     \* the local `courses`
    result,      \* the returned list (when gpc = "done" and not gcRaised)
    gcRaised,    \* an exception left get_courses
    gcError,     \* the handler of lines 385-389 ran
    \* ---- one enrollment item turned into a course record (lines 346-367) --
    rawName,     \* OrgUnit.Name of the item
    rawCode,     \* OrgUnit.Code of the item
    record,      \* the appended record, NoRecord before the item is read
    \* ---- materials / download commands up to get_course_content ---------
    ccmd,        \* "none" | "materials" | "download"
    cpc,         \* "idle" | "toc" | "gate" | "fetch" | "modules" | "nested"
                 \* | "details" | "refetch" | "output" | "done"
    contentUrl,  \* the command's `url` (course['content_url'])
    tocUrl,      \* the content_url set_table_of_contents_state was called with
    gccUrl,      \* the content_url get_course_content was called with
    tocStatus,   \* status of the state-setting response, 0 when the request raised
    tocOk,       \* set_table_of_contents_state: "none" | "true" | "false"
    contentReqs, \* every request of the command so far: [url, mId]
    soup,        \* the content page parsed at line 429
    modules,     \* the local `modules`, in insertion order
    modIdx,      \* position in module_lists
    nestIdx,     \* position in filtered_nested
    fetched,     \* the subfolders whose two requests completed: [cand, page, at]
    dropped,     \* the candidates whose processing raised (lines 538-540)
    cresult,     \* the list get_course_content returned
    cError,      \* the handler of lines 558-562 ran
    course_id,   \* the command's argument, 0 before a command ran
    course,      \* the command's `course` (courses[course_id - 1])
    cEnded,      \* "none" | "invalid" | "raised" | "resolved": how the command
                 \* left lines 696-703 (788-795)
    \* ---- the courses command and the config file ---------------------------
    kpc,              \* "idle" | "listed" | "save" | "done"
    course_list,      \* what get_courses returned to the command
    current_year,     \* datetime.now().year
    filtered_courses, \* the local `filtered_courses`
    displayed,        \* the rows of the printed table: [id, title]
    configFile,       \* the config file: [state, courses]
    kEnded,           \* "none" | "no_courses" | "none_this_year" | "saved"
                      \* | "raised": how the command ended
    \* ---- download_materials and download_file -----------------------------
    dpc,         \* "idle" | "loop" | "get" | "status" | "open" | "write"
                 \* | "returned" | "done"
    dlItems,     \* the argument `materials`
    hasProgress, \* progress_obj and progress_task were given
    dlIdx,       \* position in `materials`
    downloaded,  \* the local `downloaded`
    failed,      \* the local `failed`
    advanced,    \* the positions progress_obj.advance was called for, in order
    dfCalls,     \* the calls of download_file that returned: [item, result]
    dfStatus,    \* status of the response of the running call, 0 before it
    dfChunks,    \* number of chunks of that response's body
    dfWritten,   \* chunks written to dest_path by the running call
    dfResult,    \* what the call returned: "none" | "true" | "false"
    dfRaised,    \* an exception left download_file
    dfExcAt,     \* the step of the running call that raised, "none" when none did
    \* ---- timeedit_parser ------------------------------------------------------
    tpc,                 \* "idle" | "scan" | "flush" | "parsed" | "saved" | "loaded"
    content,             \* the lines of the file, in order
    lineIdx,             \* position in content.split('\n')
    timetable,           \* the local `timetable`, in insertion order
    current_week,        \* NoWeek for None
    current_date_str,    \* NoDate for None
    current_day_courses,
    json_data,           \* the object save_timetable_json wrote: [key, courses]
    reloaded,            \* the mapping load_timetable_json returned
    loadRaised           \* load_timetable_json raised

authVars == <<cmd, pc, twofa, cookieFile, jar, jar0, file0, pw, browser, url,
              ctxCookies, copyIdx, reached, loaded, probe, probeUrl, refresh, login,
              ensure>>
gcVars == <<gpc, verIdx, apiUrl, response, requests, verStatus, pages, courses,
            result, gcRaised, gcError>>
recVars == <<rawName, rawCode, record>>
ccVars == <<ccmd, cpc, contentUrl, tocUrl, gccUrl, tocStatus, tocOk, contentReqs,
            soup, modules, modIdx, nestIdx, fetched, dropped, cresult, cError,
            course_id, course, cEnded>>
kcVars == <<kpc, course_list, current_year, filtered_courses, displayed,
            configFile, kEnded>>
dlVars == <<dpc, dlItems, hasProgress, dlIdx, downloaded, failed, advanced,
            dfCalls, dfStatus, dfChunks, dfWritten, dfResult, dfRaised,
            dfExcAt>>
ttVars == <<tpc, content, lineIdx, timetable, current_week, current_date_str,
            current_day_courses, json_data, reloaded, loadRaised>>
vars == <<authVars, gcVars, recVars, ccVars, kcVars, dlVars, ttVars>>
nonAuthVars == <<gcVars, recVars, ccVars, kcVars, dlVars, ttVars>>
nonGcVars == <<authVars, recVars, ccVars, kcVars, dlVars, ttVars>>
nonRecVars == <<authVars, gcVars, ccVars, kcVars, dlVars, ttVars>>
nonCcVars == <<authVars, gcVars, recVars, kcVars, dlVars, ttVars>>
nonKcVars == <<authVars, gcVars, recVars, ccVars, dlVars, ttVars>>
nonDlVars == <<authVars, gcVars, recVars, ccVars, kcVars, ttVars>>
nonTtVars == <<authVars, gcVars, recVars, ccVars, kcVars, dlVars>>

-----------------------------------------------------------------------------
(* Bounds *)

\* longest list context.cookies() returns
MaxCookies == 2

\* most pieces in an OrgUnit.Name
MaxNameLen == 3

\* longest list of materials handed to download_materials
MaxMaterials == 3

\* most chunks in the body of a download
MaxChunks == 2

\* most lines in a timetable file
MaxLines == 4

\* most pages get_courses is followed through (the loop itself has no cap)
MaxPages == 3

\* the number of pages get_courses follows when its termination is checked
MaxFairPages == 2

-----------------------------------------------------------------------------
(* URLs.  A URL is its host, its path and what its query string mentions;   *)
(* the code tests URLs with `in` (substring), on the whole text.            *)

PortalHost == "ufora.ugent.be"
IdpHost == "elosp.ugent.be"
MsHost == "login.microsoftonline.com"

Hosts == {PortalHost, IdpHost, MsHost}
Paths == {"welcome", "d2l/home", "select_account"}
Mentions == {"none", PortalHost, IdpHost}

Urls == [host : Hosts, path : Paths, query : Mentions]
NoUrl == [host |-> "none", path |-> "none", query |-> "none"]

\* LOGGED_IN_URL = "https://ufora.ugent.be/d2l/home"
LOGGED_IN_URL == [host |-> PortalHost, path |-> "d2l/home", query |-> "none"]
\* LOGIN_URL = "https://elosp.ugent.be/welcome/uforalogin?"
LOGIN_URL == [host |-> IdpHost, path |-> "welcome", query |-> "none"]

\* `needle in u` for the needles the code uses.
Contains(u, needle) ==
    CASE needle = "elosp.ugent.be" -> u.host = IdpHost \/ u.query = IdpHost
      [] needle = "elosp" -> u.host = IdpHost \/ u.query = IdpHost
      [] needle = "ufora.ugent.be" -> u.host = PortalHost \/ u.query = PortalHost
      [] needle = "elosp.ugent.be/welcome" -> u.host = IdpHost /\ u.path = "welcome"
      [] needle = "login.microsoftonline.com" -> u.host = MsHost
      [] needle = "select_account" -> u.path = "select_account"
      [] OTHER -> FALSE

\* page.wait_for_url('**/d2l/home**') returned with the page at u
MatchesHomeGlob(u) == u.path = "d2l/home"

-----------------------------------------------------------------------------
(* Cookies *)

CookieNames == {"d2lSessionVal", "ESTSAUTHPERSISTENT"}
CookieValues == {"old", "new"}
Cookie == [name : CookieNames, value : CookieValues]
Jars == [CookieNames -> CookieValues \cup {"none"}]
EmptyJar == [n \in CookieNames |-> "none"]

CookieLists == UNION {[1..k -> Cookie] : k \in 0..MaxCookies}

SetCookie_FirstWins(j, c) ==
    IF j[c.name] = "none" THEN [j EXCEPT ![c.name] = c.value] ELSE j

\* self.session.cookies.set(cookie['name'], cookie['value'], ...)
SetCookie(j, c) == [j EXCEPT ![c.name] = c.value]

\* self.session.cookies.update(cookies)
UpdateJar(j, cookies) ==
    [n \in CookieNames |-> IF cookies[n] # "none" THEN cookies[n] ELSE j[n]]

-----------------------------------------------------------------------------
(* Decisions of the code *)

\* is_authenticated: `'elosp.ugent.be' not in response.url`, False on exception
IsAuthenticatedResult(completed, u) ==
    IF completed THEN ~Contains(u, "elosp.ugent.be") ELSE FALSE

\* refresh: `'ufora.ugent.be' in final_url and 'elosp' not in final_url`
RefreshAuthenticated(u) ==
    Contains(u, "ufora.ugent.be") /\ ~Contains(u, "elosp")

LoginSteps == {"launch", "new_context", "new_page", "goto_fill", "twofa",
               "wait_url", "cookies", "copy", "save"}
RefreshSteps == {"launch", "new_context", "seed", "goto", "cookies", "copy", "save"}

\* login_with_browser: the statements inside `try:` (lines 97-173)
LoginInTry(step) == step \notin {"launch", "new_context", "new_page"}

RefreshInTry_LaunchOutside(step) == step \notin {"launch", "new_context"}

\* refresh_session_with_persistent_cookies: the whole body is inside `try:`
\* (lines 180-288)
RefreshInTry(step) == TRUE

EnsureDecision_NoRefresh(ld, pr, rf) ==
    IF ld = "none" THEN "load"
    ELSE IF ld = "false" THEN "login"
    ELSE IF pr = "none" THEN "probe"
    ELSE IF pr = "true" THEN "return"
    ELSE "login"

\* ensure_authenticated (lines 290-302): what it does next, given the results
\* it has so far ("none": not called yet)
EnsureDecision(ld, pr, rf) ==
    IF ld = "none" THEN "load"
    ELSE IF ld = "false" THEN "login"
    ELSE IF pr = "none" THEN "probe"
    ELSE IF pr = "true" THEN "return"
    ELSE IF rf = "none" THEN "refresh"
    ELSE IF rf = "true" THEN "return"
    ELSE IF rf = "false" THEN "login"
    ELSE "raise"

-----------------------------------------------------------------------------
(* The cookie file *)

FileAbsent == [state |-> "absent", jar |-> EmptyJar]
FileCorrupt == [state |-> "corrupt", jar |-> EmptyJar]
FileOf(j) == [state |-> "ok", jar |-> j]

\* save_cookies raised: open(..., 'wb') failed (file untouched) or pickle.dump
\* failed after the file was truncated
FailedSaves(f) == {f, FileCorrupt}

-----------------------------------------------------------------------------
(* The enrollment API (get_courses, lines 315-389) *)

api_versions == <<"1.28", "1.9", "1.8", "1.4", "1.0">>

\* 200; 203: another success status; 404: an error status
Statuses == {200, 203, 404}

Truthy_AnyResponse(r) == r.status # 0

\* bool(response) is response.ok: no 4xx/5xx status
Truthy(r) == r.status # 0 /\ r.status < 400

\* A string is the sequence of its pieces: Sep is the three characters " - ",
\* every other piece is text that holds no " - "
Sep == " - "
Words == {"Systems", "E01"}
Pieces == Words \cup {Sep}

\* Access.StartDate: an ISO 8601 text of some year, a text that is no date,
\* the empty text (or none)
StartIn(y) == [kind |-> "iso", year |-> y]
StartText == [kind |-> "text", year |-> 0]
StartEmpty == [kind |-> "empty", year |-> 0]

\* Enrollment items: OrgUnit.Id, OrgUnit.Type.Id, Access.IsActive,
\* OrgUnit.Name, OrgUnit.Code, Access.StartDate; an item that is not
\* wellFormed (say "OrgUnit": null) raises when it is read
ItemA == [id |-> 1, typeId |-> 3, isActive |-> TRUE, wellFormed |-> TRUE,
          name |-> <<"E01", Sep, "Systems">>, code |-> <<"E01">>,
          start |-> StartIn(2026)]
ItemB == [id |-> 2, typeId |-> 3, isActive |-> TRUE, wellFormed |-> TRUE,
          name |-> <<"Systems">>, code |-> <<"Systems">>, start |-> StartIn(2026)]
ItemInactive == [id |-> 3, typeId |-> 3, isActive |-> FALSE, wellFormed |-> TRUE,
                 name |-> <<"E01", Sep, "Systems">>, code |-> <<"E01">>,
                 start |-> StartIn(2026)]
ItemGroup == [id |-> 4, typeId |-> 1, isActive |-> TRUE, wellFormed |-> TRUE,
              name |-> <<"Systems">>, code |-> <<>>, start |-> StartEmpty]
ItemBroken == [id |-> 5, typeId |-> 3, isActive |-> TRUE, wellFormed |-> FALSE,
               name |-> <<>>, code |-> <<>>, start |-> StartEmpty]
\* an offering of an earlier year, and one whose start date is no date
ItemOld == [id |-> 3, typeId |-> 3, isActive |-> TRUE, wellFormed |-> TRUE,
            name |-> <<"E01">>, code |-> <<>>, start |-> StartIn(2025)]
ItemUndated == [id |-> 4, typeId |-> 3, isActive |-> TRUE, wellFormed |-> TRUE,
                name |-> <<"Systems">>, code |-> <<"E01">>, start |-> StartText]

ItemLists == {<<>>, <<ItemA, ItemInactive>>, <<ItemGroup, ItemB>>,
              <<ItemB, ItemBroken>>}

Bookmarks == {"bmA", "bmB"}

\* PagingInfo: HasMoreItems and Bookmark ("none": absent, null or empty)
Pagings == {[hasMore |-> FALSE, bookmark |-> "none"],
            [hasMore |-> FALSE, bookmark |-> "bmA"],
            [hasMore |-> TRUE, bookmark |-> "none"],
            [hasMore |-> TRUE, bookmark |-> "bmA"],
            [hasMore |-> TRUE, bookmark |-> "bmB"]}

\* a body that response.json() parses
JsonBodies == {[json |-> TRUE, items |-> l, hasMore |-> g.hasMore,
                bookmark |-> g.bookmark] : l \in ItemLists, g \in Pagings}
\* a body that is not JSON: response.json() raises
BadBody == [json |-> FALSE, items |-> <<>>, hasMore |-> FALSE, bookmark |-> "none"]
Bodies == JsonBodies \cup {BadBody}

NoResponse == [status |-> 0, body |-> BadBody]
\* what the server can answer: JSON or not on a success status, an error page
\* on an error status
Responses == {[status |-> st, body |-> b] : st \in {200, 203}, b \in Bodies}
             \cup {[status |-> 404, body |-> BadBody]}

IsActiveCourse_TypeOnly(it) == it.typeId = 3

\* lines 345: `org_unit.get('Type', {}).get('Id') == 3 and access.get('IsActive')`
IsActiveCourse(it) == it.typeId = 3 /\ it.isActive

\* `" - " in course_name` (line 352)
ContainsSep(s) == \E i \in 1..Len(s) : s[i] = Sep

AfterSep_Last(s) ==
    LET last == CHOOSE i \in 1..Len(s) :
                    s[i] = Sep /\ \A j \in (i + 1)..Len(s) : s[j] # Sep
    IN SubSeq(s, last + 1, Len(s))

\* course_name.split(" - ", 1)[1] (line 353), for a name that holds " - "
RECURSIVE AfterSep(_)
AfterSep(s) == IF Head(s) = Sep THEN Tail(s) ELSE AfterSep(Tail(s))

\* lines 352-353
StripName(raw) == IF ContainsSep(raw) THEN AfterSep(raw) ELSE raw

\* lines 354-357; `course_code and ...`: an empty code is falsy
TitleOf(code, name) ==
    IF code # <<>> /\ code # name THEN code \o <<Sep>> \o name ELSE name

\* course['content_url'] is f"{BASE_URL}/d2l/le/content/{course_id}/Home"
\* (line 362): the course id and the last path segment
ContentUrlOf(id) == [course |-> id, leaf |-> "Home"]

\* lines 346-367: the record appended for one item
CourseRecord(it) ==
    [title |-> TitleOf(it.code, StripName(it.name)),
     url |-> [course |-> it.id, leaf |-> "home"],
     content_url |-> ContentUrlOf(it.id),
     id |-> it.id, code |-> it.code, name |-> StripName(it.name),
     start |-> it.start]

\* lines 340-367 on one page: the records appended to `courses`
RECURSIVE CoursesOf(_)
CoursesOf(items) ==
    IF items = <<>> THEN <<>>
    ELSE IF IsActiveCourse(Head(items))
         THEN <<CourseRecord(Head(items))>> \o CoursesOf(Tail(items))
         ELSE CoursesOf(Tail(items))

\* reading some item of the page raises
ItemsRaise(items) == \E i \in 1..Len(items) : ~items[i].wellFormed

\* the items read before the first one that raises
RECURSIVE ReadBeforeRaise(_)
ReadBeforeRaise(items) ==
    IF items = <<>> \/ ~Head(items).wellFormed THEN <<>>
    ELSE <<Head(items)>> \o ReadBeforeRaise(Tail(items))

NextBookmark_NeverFollows(b) == "none"

NextBookmark_IgnoreHasMore(b) == b.bookmark

\* lines 370-381: the bookmark to follow, "none" to stop paginating
NextBookmark(b) == IF b.hasMore THEN b.bookmark ELSE "none"

\* line 327: the request of one API version
VersionRequest(i) == [ver |-> api_versions[i], bookmark |-> "none"]

\* line 374: next_url = f"{api_url}?Bookmark={bookmark}"
NextRequest(api, b) == [ver |-> api, bookmark |-> NextBookmark(b)]

VersionAccepted_AnySuccess(r) == Truthy(r)

\* line 329: `if response.status_code == 200: break`
VersionAccepted(r) == r.status = 200

\* line 332: `if not response or response.status_code != 200`
NoVersionWorked(r) == ~Truthy(r) \/ r.status # 200

HandlerResult_Partial(acc) == acc

\* lines 385-389: what the handler returns, given the accumulated courses
HandlerResult(acc) == <<>>

\* the whole body of get_courses is inside `try:` (lines 317-383)
GcInTry(step) == TRUE

-----------------------------------------------------------------------------
(* The content page (get_course_content, lines 424-562) *)

NoContentUrl == [course |-> 0, leaf |-> "none"]

\* content_url.rstrip('Home') + 'PartialMainView' (line 588): the ids are
\* digits, so rstrip removes the segment "Home" and nothing else
TocEndpoint(u) == [u EXCEPT !.leaf = "PartialMainView"]
\* content_url.rstrip('Home') + 'ModuleDetailsPartial' (line 502)
DetailsEndpoint(u) == [u EXCEPT !.leaf = "ModuleDetailsPartial"]

\* A file row (li.d2l-datalist-item): whether it holds a content link, the
\* link's text, the id in /viewContent/<id>/View (0: the href has none) and
\* the text of its type block ("": it has none)
RowSlides == [link |-> TRUE, title |-> "slides", id |-> 11, type |-> "File"]
RowTask == [link |-> TRUE, title |-> "task", id |-> 0, type |-> "Assignment"]
RowNote == [link |-> TRUE, title |-> "note", id |-> 12, type |-> ""]
RowText == [link |-> FALSE, title |-> "", id |-> 0, type |-> "Text"]

\* lines 401-419: the material of a row that holds a link
MaterialOf(row) ==
    [title |-> row.title, id |-> row.id,
     type |-> IF row.type = "" THEN "Unknown" ELSE row.type]

\* lines 397-421 over a list of file items
RECURSIVE ExtractMaterials(_)
ExtractMaterials(rows) ==
    IF rows = <<>> THEN <<>>
    ELSE IF Head(rows).link
         THEN <<MaterialOf(Head(rows))>> \o ExtractMaterials(Tail(rows))
         ELSE ExtractMaterials(Tail(rows))

\* A module item of the table of contents: the text of its h2 ("": no h2 or
\* an empty one) and its file rows
ModWeek1 == [heading |-> "Week 1", rows |-> <<RowSlides, RowTask>>]
ModWeek1Late == [heading |-> "Week 1", rows |-> <<RowText, RowNote>>]
ModWeek1Empty == [heading |-> "Week 1", rows |-> <<RowText>>]
ModWeek2Empty == [heading |-> "Week 2", rows |-> <<>>]
ModNoHeading == [heading |-> "", rows |-> <<RowSlides>>]

ModuleLists == {<<>>, <<ModWeek1, ModWeek1Late>>, <<ModWeek1, ModWeek1Empty>>,
                <<ModWeek2Empty, ModWeek1Late>>, <<ModNoHeading, ModWeek1>>,
                <<ModWeek2Empty, ModWeek1Empty>>}

\* the module item itself carries the class d2l-datalist-item (line 441), so
\* find_all('li', class_='d2l-datalist-item') over a whole page (line 397
\* called from line 517) returns it before its rows; its find() calls return
\* the first link and the first type block of its subtree
ItemAsRow(it) ==
    LET linked == SelectSeq(it.rows, LAMBDA r : r.link)
        typed == SelectSeq(it.rows, LAMBDA r : r.type # "")
    IN IF linked = <<>> THEN RowText
       ELSE [link |-> TRUE, title |-> linked[1].title, id |-> linked[1].id,
             type |-> IF typed = <<>> THEN "" ELSE typed[1].type]

\* the file items of a whole page, in document order
RECURSIVE PageRows(_)
PageRows(items) ==
    IF items = <<>> THEN <<>>
    ELSE <<ItemAsRow(Head(items))>> \o Head(items).rows \o PageRows(Tail(items))

\* An accordion item (li.d2l-le-TreeAccordionItem), in document order: whether
\* it is flagged root, the text of its own d2l-textblock ("none": it has no
\* such block), the digits after "ModuleCO-" in its id (0: none) and the
\* position of the accordion item that encloses it (0: none)
AccRoot(l, par) == [root |-> TRUE, label |-> l, fid |-> 0, parent |-> par]
AccItem(l, f, par) == [root |-> FALSE, label |-> l, fid |-> f, parent |-> par]

\* a root, a subfolder and a subfolder of the subfolder
TreeDeep == <<AccRoot("Week 1", 0), AccItem("Slides", 21, 1), AccItem("Extra", 22, 2)>>
\* a root no module item names; a module marker, an id without digits
TreeSkips == <<AccRoot("Week 2", 0), AccItem("Module: intro", 23, 1),
               AccItem("Labs", 0, 1), AccItem("Labs", 24, 1)>>
\* an item outside every root, a root without a label of its own, an item
\* without a label of its own
TreeOdd == <<AccItem("Stray", 25, 0), AccRoot("none", 0), AccItem("none", 26, 2),
             AccItem("Week 1", 27, 3), AccRoot("", 0), AccItem("Slides", 28, 5)>>
\* two roots with the same label
TreeTwins == <<AccRoot("Week 1", 0), AccItem("Slides", 21, 1),
               AccRoot("Week 1", 0), AccItem("Labs", 24, 3)>>
Trees == {<<>>, TreeDeep, TreeSkips, TreeOdd, TreeTwins}

\* the parsed page: whether it holds ul.d2l-datalist.vui-list, the module
\* items of that list, the accordion items
NoPage == [toc |-> FALSE, items |-> <<>>, tree |-> <<>>]
ContentPages == {[toc |-> TRUE, items |-> l, tree |-> t] : l \in ModuleLists, t \in Trees}
                \cup {[toc |-> FALSE, items |-> <<>>, tree |-> TreeDeep]}
\* what the content page can hold once a module's details were visited
RefetchPages == {[toc |-> TRUE, items |-> l, tree |-> <<>>] :
                    l \in {<<>>, <<ModWeek1>>, <<ModWeek2Empty, ModWeek1Late>>}}

\* self._extract_materials_from_page(soup) (line 517)
PageMaterials(p) == ExtractMaterials(PageRows(p.items))

\* `'module:' in folder_name.lower()` (line 493)
IsModuleMarker(l) == l \in {"Module: intro"}

RootAncestor_Direct(tree, i) == tree[i].parent

\* nested_item.find_parent('li', class_='... d2l-le-TreeAccordionItem-Root')
\* (line 479): the nearest enclosing root item, 0 when there is none
RECURSIVE RootAncestor(_, _)
RootAncestor(tree, i) ==
    LET par == tree[i].parent
    IN IF par = 0 THEN 0
       ELSE IF tree[par].root THEN par
       ELSE RootAncestor(tree, par)

\* item a encloses item j
RECURSIVE Encloses(_, _, _)
Encloses(tree, a, j) ==
    LET par == tree[j].parent
    IN par # 0 /\ (par = a \/ Encloses(tree, a, par))

\* item.find('div', class_='d2l-textblock') then get_text (lines 483-484,
\* 489-490): the first text block of the item's subtree, its own when it has
\* one; "none" when the subtree has none
LabelOf(tree, i) ==
    IF tree[i].label # "none" THEN tree[i].label
    ELSE LET below == {j \in 1..Len(tree) :
                          Encloses(tree, i, j) /\ tree[j].label # "none"}
         IN IF below = {} THEN "none"
            ELSE tree[CHOOSE j \in below : \A k \in below : j <= k].label

\* lines 467-474: the positions of the non-root accordion items, in order
filtered_nested(tree) ==
    LET RECURSIVE From(_)
        From(i) == IF i > Len(tree) THEN <<>>
                   ELSE IF tree[i].root THEN From(i + 1)
                   ELSE <<i>> \o From(i + 1)
    IN From(1)

\* lines 479-486: parent_name, "" when the candidate is skipped for it
parent_name(tree, i) ==
    LET par == RootAncestor(tree, i)
    IN IF par = 0 \/ LabelOf(tree, par) = "none" THEN "" ELSE LabelOf(tree, par)

\* lines 489-491: folder_name, "" when there is no text block
folder_name(tree, i) == IF LabelOf(tree, i) = "none" THEN "" ELSE LabelOf(tree, i)

\* lines 479-498: none of the four `continue` is taken
Resolves(tree, i) ==
    /\ parent_name(tree, i) # ""
    /\ folder_name(tree, i) # "" /\ ~IsModuleMarker(folder_name(tree, i))
    /\ tree[i].fid # 0

Registers_Always(materials) == TRUE

\* `if materials:` (line 460)
Registers(materials) == materials # <<>>

\* position of the module named `name` in the mapping, 0 when absent
IndexOf(mods, name) ==
    IF \E i \in 1..Len(mods) : mods[i].name = name
    THEN CHOOSE i \in 1..Len(mods) : mods[i].name = name
    ELSE 0

\* modules[module_name] = {...} (lines 461-465): a dict keeps the position of
\* a key that is assigned again
PutModule(mods, name, materials) ==
    LET rec == [name |-> name, materials |-> materials, subfolders |-> <<>>]
    IN IF IndexOf(mods, name) = 0 THEN Append(mods, rec)
       ELSE [mods EXCEPT ![IndexOf(mods, name)] = rec]

AttachSubfolder_Replace(mods, parent, subfolder) ==
    IF IndexOf(mods, parent) # 0
    THEN [mods EXCEPT ![IndexOf(mods, parent)].subfolders = <<subfolder>>]
    ELSE Append(mods, [name |-> parent, materials |-> <<>>,
                       subfolders |-> <<subfolder>>])

\* lines 526-536
AttachSubfolder(mods, parent, subfolder) ==
    IF IndexOf(mods, parent) # 0
    THEN [mods EXCEPT ![IndexOf(mods, parent)].subfolders = Append(@, subfolder)]
    ELSE Append(mods, [name |-> parent, materials |-> <<>>,
                       subfolders |-> <<subfolder>>])

\* lines 543-554: one entry of modules_list
module_entry(m) ==
    IF m.subfolders # <<>>
    THEN [name |-> m.name, materials |-> m.materials, subfolders |-> m.subfolders]
    ELSE [name |-> m.name, materials |-> m.materials]

NestedInTry_RequestOnly(step) == step = "details"

\* get_course_content: the steps of one subfolder that lie inside the inner
\* `try:` (lines 500-536): the details request, the re-fetch, the extraction
NestedInTry(step) == step \in {"details", "refetch", "extract"}

SetTocResult_AnySuccess(completed, status) == completed /\ status < 400

\* lines 604-612: what set_table_of_contents_state returns
SetTocResult(completed, status) == completed /\ status = 200

\* `if not set_table_of_contents_state(session, url): return []`
\* (lines 711-712, 817-818)
ProceedsToContent(ok) == ok = "true"

-----------------------------------------------------------------------------
(* The downloader (download_file, lines 565-580; download_materials,
   lines 752-779) *)

\* a material of the listing whose type block reads "Discussion Topic"
TopicMaterial == [title |-> "forum", id |-> 13, type |-> "Discussion Topic"]

\* the materials a module or subfolder of the listing can hold
Materials == {MaterialOf(RowSlides), MaterialOf(RowTask), MaterialOf(RowNote),
              TopicMaterial}
MaterialLists == UNION {[1..n -> Materials] : n \in 0..MaxMaterials}

Skipped_AssignmentOnly(item) == item.type = "Assignment"

\* `if item['type'] in ['Assignment', 'Discussion Topic']` (line 762)
Skipped(item) == item.type \in {"Assignment", "Discussion Topic"}

RaisesForStatus_Never(status) == FALSE

\* response.raise_for_status() (line 571): raises on a 4xx or 5xx status
RaisesForStatus(status) == status >= 400 /\ status < 600

\* every step of download_file after the URL is built is inside `try:`
\* (lines 569-577)
DfInTry(step) == TRUE

-----------------------------------------------------------------------------
(* The timetable parser (timeedit_parser.py) *)

\* A string of the timetable is the sequence of its pieces: a date
\* (DD-MM-YYYY, one piece), "|", "W" and the digits
DigitChars == <<"0", "1", "2", "3", "4", "5", "6", "7", "8", "9">>

\* the value of a digit
DigitValue(c) == (CHOOSE i \in 1..Len(DigitChars) : DigitChars[i] = c) - 1

\* int(s) for a string of digits (lines 36, 121)
RECURSIVE ParseInt(_)
ParseInt(s) ==
    IF Len(s) = 1 THEN DigitValue(s[1])
    ELSE 10 * ParseInt(SubSeq(s, 1, Len(s) - 1)) + DigitValue(s[Len(s)])

Digits_Units(n) == <<DigitChars[(n % 10) + 1]>>

\* f"{week}" for a non-negative integer (line 104)
RECURSIVE Digits(_)
Digits(n) ==
    IF n < 10 THEN <<DigitChars[n + 1]>>
    ELSE Digits(n \div 10) \o <<DigitChars[(n % 10) + 1]>>

\* current_date_str = None, current_week = None (lines 16-17)
NoDate == <<>>
NoWeek == -1

Dates == {<<"20-10-2025">>, <<"21-10-2025">>}
\* the digits of a header's week number: "43", "05"
WeekTexts == {<<"4", "3">>, <<"0", "5">>}

\* the course a course line holds: the time slot, whether the first part
\* holds a period, the code and the name around it, the type, the location
\* and the trailing parts
NoCourse == [slot |-> "", dotted |-> FALSE, code |-> "", name |-> "",
             type |-> "", location |-> "", profs |-> <<>>]
RawAlgo == [slot |-> "08:30 - 10:00", dotted |-> TRUE, code |-> "E01",
            name |-> "Algo", type |-> "Lecture", location |-> "S9",
            profs |-> <<"Peeters", "none", "", "Maes">>]
RawLab == [slot |-> "13:00 - 16:00", dotted |-> FALSE, code |-> "", name |-> "Lab",
           type |-> "", location |-> "", profs |-> <<>>]

\* A stripped line: a date header (line 13), a course line (line 43), a line
\* that matches neither, an empty line
HeaderLine(d, w) == [kind |-> "header", date |-> d, week |-> w, raw |-> NoCourse]
CourseLine(c) == [kind |-> "course", date |-> NoDate, week |-> <<>>, raw |-> c]
OtherLine == [kind |-> "other", date |-> NoDate, week |-> <<>>, raw |-> NoCourse]
EmptyLine == [kind |-> "empty", date |-> NoDate, week |-> <<>>, raw |-> NoCourse]

Lines == {HeaderLine(<<"20-10-2025">>, <<"4", "3">>),
          HeaderLine(<<"21-10-2025">>, <<"4", "3">>),
          HeaderLine(<<"20-10-2025">>, <<"0", "5">>),
          CourseLine(RawAlgo), CourseLine(RawLab), OtherLine, EmptyLine}
Files == UNION {[1..n -> Lines] : n \in 0..MaxLines}

\* `prof_part and prof_part.lower() not in ['', 'none']` (line 77)
IsProfessor(part) == part \notin {"", "none", "None", "NONE"}

\* lines 47-87: the course of a course line
CourseOf(c) ==
    [time_slot |-> c.slot,
     course_code |-> IF c.dotted THEN c.code ELSE "",
     course_name |-> IF c.dotted THEN c.name ELSE "",
     course_type |-> c.type, location |-> c.location,
     professors |-> SelectSeq(c.profs, IsProfessor)]

Flushes_AnyBucket(date, week, list) == date # NoDate /\ week # NoWeek

\* `if current_date_str and current_week is not None and current_day_courses`
\* (lines 30, 92)
Flushes(date, week, list) ==
    date # NoDate /\ week # NoWeek /\ list # <<>>

\* position of the key (date, week) in the mapping, 0 when absent
KeyIndex(table, date, week) ==
    IF \E i \in 1..Len(table) : table[i].date = date /\ table[i].week = week
    THEN CHOOSE i \in 1..Len(table) : table[i].date = date /\ table[i].week = week
    ELSE 0

SetEntry_Merge(table, date, week, list) ==
    LET i == KeyIndex(table, date, week)
    IN IF i = 0 THEN Append(table, [date |-> date, week |-> week, courses |-> list])
       ELSE [table EXCEPT ![i].courses = @ \o list]

\* timetable[key] = courses (lines 32, 94, 122): a dict keeps the position of
\* a key that is assigned again
SetEntry(table, date, week, list) ==
    LET e == [date |-> date, week |-> week, courses |-> list]
    IN IF KeyIndex(table, date, week) = 0 THEN Append(table, e)
       ELSE [table EXCEPT ![KeyIndex(table, date, week)] = e]

Flush_KeepFirst(table, date, week, list) ==
    IF Flushes(date, week, list) /\ KeyIndex(table, date, week) = 0
    THEN SetEntry(table, date, week, list)
    ELSE table

\* lines 30-32 and 92-94
Flush(table, date, week, list) ==
    IF Flushes(date, week, list) THEN SetEntry(table, date, week, list)
    ELSE table

\* f"{date}|W{week}" (line 104)
FormatKey(date, week) == date \o <<"|", "W">> \o Digits(week)

\* json_data[key] = courses: the object keeps one member per key string
SetMember(obj, key, list) ==
    IF \E i \in 1..Len(obj) : obj[i].key = key
    THEN [obj EXCEPT ![CHOOSE i \in 1..Len(obj) : obj[i].key = key] =
              [key |-> key, courses |-> list]]
    ELSE Append(obj, [key |-> key, courses |-> list])

\* line 104: the dict comprehension over timetable.items()
RECURSIVE ToJson(_)
ToJson(table) ==
    IF table = <<>> THEN <<>>
    ELSE LET init == SubSeq(table, 1, Len(table) - 1)
             last == table[Len(table)]
         IN SetMember(ToJson(init), FormatKey(last.date, last.week), last.courses)

\* key_str.split('|') (line 120)
RECURSIVE SplitPipe(_)
SplitPipe(s) ==
    IF \A i \in 1..Len(s) : s[i] # "|" THEN <<s>>
    ELSE LET at == CHOOSE i \in 1..Len(s) :
                       s[i] = "|" /\ \A j \in 1..(i - 1) : s[j] # "|"
         IN <<SubSeq(s, 1, at - 1)>> \o SplitPipe(SubSeq(s, at + 1, Len(s)))

\* int(week_str[1:]) raises unless the rest is digits (line 121); the
\* unpacking of line 120 raises unless there are two parts
KeyParses(key) ==
    /\ Len(SplitPipe(key)) = 2
    /\ LET rest == Tail(SplitPipe(key)[2])
       IN rest # <<>> /\ \A i \in 1..Len(rest) :
                            \E d \in 1..Len(DigitChars) : DigitChars[d] = rest[i]

\* lines 119-122
RECURSIVE FromJson(_)
FromJson(obj) ==
    IF obj = <<>> THEN <<>>
    ELSE LET init == SubSeq(obj, 1, Len(obj) - 1)
             last == obj[Len(obj)]
             parts == SplitPipe(last.key)
         IN SetEntry(FromJson(init), parts[1], ParseInt(Tail(parts[2])),
                     last.courses)

-----------------------------------------------------------------------------
(* The courses command and the saved course list (lines 614-625, 641-689,
   696-703, 788-795) *)

\* datetime.now().year (line 652)
Years == {2025, 2026}

\* what get_courses can hand to the command
CourseLists == {<<>>, CoursesOf(<<ItemA, ItemB>>), CoursesOf(<<ItemOld, ItemB>>),
                CoursesOf(<<ItemUndated, ItemB, ItemA>>)}

StartedIn_AnyDate(c, year) == c.start.kind = "iso"

\* lines 657-665: `if start_date:` skips an empty start, fromisoformat raises
\* ValueError for a text that is no date, the year is compared
StartedIn(c, year) == c.start.kind = "iso" /\ c.start.year = year

\* lines 655-665: filtered_courses
FilterCourses(list, year) == SelectSeq(list, LAMBDA c : StartedIn(c, year))

\* lines 676-677: one table row per course, `str(idx)` counted from 1
TableRows(list) ==
    [i \in 1..Len(list) |-> [id |-> Digits(i), title |-> list[i].title]]

\* the config file: absent, a JSON object with the member "courses", or a
\* file json.load cannot read
ConfigAbsent == [state |-> "absent", courses |-> <<>>]
ConfigCorrupt == [state |-> "corrupt", courses |-> <<>>]

\* the keys of a course record, in the order of the dict literal (line 359)
CourseKeys == <<"title", "url", "content_url", "id", "code", "name", "start">>

\* json.dump of one course: the members of the object, in dict order
ToJsonCourse(c) ==
    [k \in 1..Len(CourseKeys) |-> [key |-> CourseKeys[k], value |-> c[CourseKeys[k]]]]

\* json.load of one object: a dict with one entry per member
FromJsonCourse(obj) ==
    [key \in {obj[k].key : k \in 1..Len(obj)} |->
        obj[CHOOSE k \in 1..Len(obj) : obj[k].key = key].value]

\* save_config(config) with config['courses'] = list (lines 622-625, 688)
ConfigOf(list) ==
    [state |-> "ok", courses |-> [i \in 1..Len(list) |-> ToJsonCourse(list[i])]]

\* save_config raised: open(..., 'w') failed (file untouched) or json.dump
\* failed after the file was truncated
FailedConfigSaves(f) == {f, ConfigCorrupt}

\* load_config().get('courses', []) (lines 614-619, 696-697): an absent file
\* gives {}
SavedCourses(f) ==
    IF f.state = "ok"
    THEN [i \in 1..Len(f.courses) |-> FromJsonCourse(f.courses[i])]
    ELSE <<>>

\* what the user types for course_id: click turns the text into an int
TypedIds == {<<"0">>, <<"1">>, <<"2">>, <<"3">>}

ValidCourseId_UpperOnly(id, n) == id <= n

\* `if course_id < 1 or course_id > len(courses)` (lines 699, 791)
ValidCourseId(id, n) == ~(id < 1 \/ id > n)

\* list[k] of Python: a negative index counts from the end
InRange(list, k) == -Len(list) <= k /\ k < Len(list)
PyIndex(list, k) == IF k < 0 THEN list[Len(list) + k + 1] ELSE list[k + 1]

-----------------------------------------------------------------------------
(* Initial state: a fresh install, no command running *)

AuthIdle ==
    /\ cmd = "none" /\ pc = "idle" /\ twofa = "app"
    /\ cookieFile = FileAbsent
    /\ jar = EmptyJar /\ jar0 = EmptyJar /\ file0 = FileAbsent
    /\ pw = "off" /\ browser = "none" /\ url = NoUrl
    /\ ctxCookies = <<>> /\ copyIdx = 1 /\ reached = FALSE
    /\ loaded = "none" /\ probe = "none" /\ probeUrl = NoUrl
    /\ refresh = "none" /\ login = "none" /\ ensure = "none"

CoursesIdle ==
    /\ gpc = "idle" /\ verIdx = 1 /\ apiUrl = "none"
    /\ response = NoResponse /\ requests = <<>> /\ verStatus = <<>>
    /\ pages = <<>> /\ courses = <<>>
    /\ result = <<>> /\ gcRaised = FALSE /\ gcError = FALSE

\* the record no item was turned into yet (real ids are positive)
NoRecord == [title |-> <<>>, url |-> [course |-> 0, leaf |-> "none"],
             content_url |-> [course |-> 0, leaf |-> "none"],
             id |-> 0, code |-> <<>>, name |-> <<>>, start |-> StartEmpty]

RecordIdle == rawName = <<>> /\ rawCode = <<>> /\ record = NoRecord

ContentIdle ==
    /\ ccmd = "none" /\ cpc = "idle"
    /\ contentUrl = NoContentUrl /\ tocUrl = NoContentUrl /\ gccUrl = NoContentUrl
    /\ tocStatus = 0 /\ tocOk = "none" /\ contentReqs = <<>>
    /\ soup = NoPage /\ modules = <<>> /\ modIdx = 1 /\ nestIdx = 1
    /\ fetched = <<>> /\ dropped = <<>>
    /\ cresult = <<>> /\ cError = FALSE
    /\ course_id = 0 /\ course = NoRecord /\ cEnded = "none"

\* no courses command ran yet: no config file
CommandIdle ==
    /\ kpc = "idle" /\ course_list = <<>> /\ current_year = 0
    /\ filtered_courses = <<>> /\ displayed = <<>>
    /\ configFile = ConfigAbsent /\ kEnded = "none"

DownloadIdle ==
    /\ dpc = "idle" /\ dlItems = <<>> /\ hasProgress = FALSE /\ dlIdx = 1
    /\ downloaded = 0 /\ failed = 0 /\ advanced = <<>> /\ dfCalls = <<>>
    /\ dfStatus = 0 /\ dfChunks = 0 /\ dfWritten = 0
    /\ dfResult = "none" /\ dfRaised = FALSE /\ dfExcAt = "none"

TimetableIdle ==
    /\ tpc = "idle" /\ content = <<>> /\ lineIdx = 1 /\ timetable = <<>>
    /\ current_week = NoWeek /\ current_date_str = NoDate
    /\ current_day_courses = <<>>
    /\ json_data = <<>> /\ reloaded = <<>> /\ loadRaised = FALSE

Init ==
    AuthIdle /\ CoursesIdle /\ RecordIdle /\ ContentIdle /\ CommandIdle
    /\ DownloadIdle /\ TimetableIdle

-----------------------------------------------------------------------------
(* Commands *)

\* the `login` command: UforaSession() then login_with_browser(), which reads
\* config['2fa_method'] (lines 78-80)
StartLogin ==
    /\ pc = "idle"
    /\ cmd' = "login" /\ pc' = "L_launch" /\ login' = "started"
    /\ twofa' \in {"app", "sms"}
    /\ jar0' = jar /\ file0' = cookieFile
    /\ UNCHANGED <<cookieFile, jar, pw, browser, url, ctxCookies, copyIdx, reached,
                   loaded, probe, probeUrl, refresh, ensure>>
    /\ UNCHANGED nonAuthVars

\* courses / materials / download: UforaSession() then ensure_authenticated()
StartEnsure ==
    /\ pc = "idle"
    /\ cmd' = "ensure" /\ pc' = "E_next" /\ ensure' = "started"
    /\ UNCHANGED <<twofa, cookieFile, jar, jar0, file0, pw, browser, url, ctxCookies,
                   copyIdx, reached, loaded, probe, probeUrl, refresh, login>>
    /\ UNCHANGED nonAuthVars

\* the process ends; the next command builds a new UforaSession
Exit ==
    /\ pc = "done"
    /\ cmd' = "none" /\ pc' = "idle" /\ twofa' = "app"
    /\ jar' = EmptyJar /\ jar0' = EmptyJar /\ file0' = FileAbsent
    /\ pw' = "off" /\ browser' = "none" /\ url' = NoUrl
    /\ ctxCookies' = <<>> /\ copyIdx' = 1 /\ reached' = FALSE
    /\ loaded' = "none" /\ probe' = "none" /\ probeUrl' = NoUrl
    /\ refresh' = "none" /\ login' = "none" /\ ensure' = "none"
    /\ UNCHANGED cookieFile
    /\ UNCHANGED nonAuthVars

-----------------------------------------------------------------------------
(* ensure_authenticated *)

\* load_cookies (lines 50-57); pickle.load of a damaged file raises, and
\* ensure_authenticated has no handler
LoadCookies ==
    /\ pc = "E_load"
    /\ CASE cookieFile.state = "absent" ->
              /\ loaded' = "false" /\ pc' = "E_next"
              /\ UNCHANGED <<jar, ensure>>
         [] cookieFile.state = "ok" ->
              /\ loaded' = "true" /\ pc' = "E_next"
              /\ jar' = UpdateJar(jar, cookieFile.jar)
              /\ UNCHANGED ensure
         [] OTHER ->
              /\ ensure' = "raised" /\ pc' = "done"
              /\ UNCHANGED <<jar, loaded>>
    /\ UNCHANGED <<cmd, twofa, cookieFile, jar0, file0, pw, browser, url, ctxCookies,
                   copyIdx, reached, probe, probeUrl, refresh, login>>
    /\ UNCHANGED nonAuthVars

\* is_authenticated (lines 64-72)
IsAuthenticated ==
    /\ pc = "E_probe"
    /\ \E completed \in BOOLEAN :
       \E u \in Urls :
          /\ probeUrl' = IF completed THEN u ELSE NoUrl
          /\ probe' = IF IsAuthenticatedResult(completed, u) THEN "true" ELSE "false"
    /\ pc' = "E_next"
    /\ UNCHANGED <<cmd, twofa, cookieFile, jar, jar0, file0, pw, browser, url,
                   ctxCookies, copyIdx, reached, loaded, refresh, login, ensure>>
    /\ UNCHANGED nonAuthVars

\* the control flow of ensure_authenticated (lines 292-302).  The locals of a
\* callee that returned (the probe's response, the refresh's browser, page and
\* cookie list) are gone when the next callee starts.
EnsureStep ==
    /\ pc = "E_next"
    /\ LET d == EnsureDecision(loaded, probe, refresh) IN
       CASE d = "load" ->
              /\ pc' = "E_load"
              /\ UNCHANGED <<ensure, refresh, login, jar0, file0, twofa, pw, browser,
                             url, ctxCookies, copyIdx, probeUrl>>
         [] d = "probe" ->
              /\ pc' = "E_probe"
              /\ UNCHANGED <<ensure, refresh, login, jar0, file0, twofa, pw, browser,
                             url, ctxCookies, copyIdx, probeUrl>>
         [] d = "refresh" ->
              /\ pc' = "R_launch" /\ refresh' = "started"
              /\ jar0' = jar /\ file0' = cookieFile
              /\ probeUrl' = NoUrl
              /\ UNCHANGED <<ensure, login, twofa, pw, browser, url, ctxCookies,
                             copyIdx>>
         [] d = "login" ->
              /\ pc' = "L_launch" /\ login' = "started"
              /\ twofa' \in {"app", "sms"}
              /\ jar0' = jar /\ file0' = cookieFile
              /\ pw' = "off" /\ browser' = "none" /\ url' = NoUrl
              /\ ctxCookies' = <<>> /\ copyIdx' = 1
              /\ UNCHANGED <<ensure, refresh, probeUrl>>
         [] d = "return" ->
              /\ pc' = "done" /\ ensure' = "returned"
              /\ UNCHANGED <<refresh, login, jar0, file0, twofa, pw, browser, url,
                             ctxCookies, copyIdx, probeUrl>>
         [] OTHER ->
              /\ pc' = "done" /\ ensure' = "raised"
              /\ UNCHANGED <<refresh, login, jar0, file0, twofa, pw, browser, url,
                             ctxCookies, copyIdx, probeUrl>>
    /\ UNCHANGED <<cmd, cookieFile, jar, reached, loaded, probe>>
    /\ UNCHANGED nonAuthVars

-----------------------------------------------------------------------------
(* login_with_browser (lines 74-176).  The prompts of lines 78-83 come      *)
(* first and involve no browser; the model starts at the `with` block.      *)

\* An exception at `step`: at the end of the `with` block playwright stops;
\* inside `try:` the handler (lines 174-176) prints and calls browser.close()
\* and the function returns, outside it the exception leaves the function.
LoginExc(step) ==
    /\ pc' = "done" /\ pw' = "stopped"
    /\ IF LoginInTry(step)
       THEN /\ browser' = "closed" /\ login' = "failed"
            /\ ensure' = IF cmd = "ensure" THEN "returned" ELSE ensure
       ELSE /\ browser' = browser /\ login' = "raised"
            /\ ensure' = IF cmd = "ensure" THEN "raised" ELSE ensure

\* p.firefox.launch(headless=True) (line 86)
LoginLaunch ==
    /\ pc = "L_launch"
    /\ \/ /\ pc' = "L_context" /\ pw' = "running" /\ browser' = "open"
          /\ UNCHANGED <<login, ensure>>
       \/ LoginExc("launch")
    /\ UNCHANGED <<cmd, twofa, cookieFile, jar, jar0, file0, url, ctxCookies, copyIdx,
                   reached, loaded, probe, probeUrl, refresh>>
    /\ UNCHANGED nonAuthVars

\* browser.new_context(...) (lines 87-92)
LoginNewContext ==
    /\ pc = "L_context"
    /\ \/ /\ pc' = "L_page"
          /\ UNCHANGED <<pw, browser, login, ensure>>
       \/ LoginExc("new_context")
    /\ UNCHANGED <<cmd, twofa, cookieFile, jar, jar0, file0, url, ctxCookies, copyIdx,
                   reached, loaded, probe, probeUrl, refresh>>
    /\ UNCHANGED nonAuthVars

\* context.new_page() (line 93)
LoginNewPage ==
    /\ pc = "L_page"
    /\ \/ /\ pc' = "L_goto"
          /\ UNCHANGED <<pw, browser, login, ensure>>
       \/ LoginExc("new_page")
    /\ UNCHANGED <<cmd, twofa, cookieFile, jar, jar0, file0, url, ctxCookies, copyIdx,
                   reached, loaded, probe, probeUrl, refresh>>
    /\ UNCHANGED nonAuthVars

\* page.goto(LOGIN_URL), the e-mail and password forms, the 2 s wait (98-108)
LoginGotoFill ==
    /\ pc = "L_goto"
    /\ \/ /\ pc' = "L_2fa" /\ url' = LOGIN_URL
          /\ UNCHANGED <<pw, browser, login, ensure>>
       \/ LoginExc("goto_fill") /\ UNCHANGED url
    /\ UNCHANGED <<cmd, twofa, cookieFile, jar, jar0, file0, ctxCookies, copyIdx,
                   reached, loaded, probe, probeUrl, refresh>>
    /\ UNCHANGED nonAuthVars

\* the two-factor branch (lines 111-145): "app" swallows every exception (bare
\* except, line 122); "sms" clicks 'Text' unguarded (line 126), then tolerates
\* a failure to enter the code (lines 134-145)
LoginTwoFactor ==
    /\ pc = "L_2fa"
    /\ \/ /\ pc' = "L_wait"
          /\ UNCHANGED <<pw, browser, login, ensure>>
       \/ /\ twofa = "sms"
          /\ LoginExc("twofa")
    /\ UNCHANGED <<cmd, twofa, cookieFile, jar, jar0, file0, url, ctxCookies, copyIdx,
                   reached, loaded, probe, probeUrl, refresh>>
    /\ UNCHANGED nonAuthVars

\* page.wait_for_url(LOGGED_IN_URL, timeout=120000) (line 149)
LoginWaitUrl ==
    /\ pc = "L_wait"
    /\ \/ /\ pc' = "L_cookies" /\ url' = LOGGED_IN_URL /\ reached' = TRUE
          /\ UNCHANGED <<pw, browser, login, ensure>>
       \/ LoginExc("wait_url") /\ UNCHANGED <<url, reached>>
    /\ UNCHANGED <<cmd, twofa, cookieFile, jar, jar0, file0, ctxCookies, copyIdx,
                   loaded, probe, probeUrl, refresh>>
    /\ UNCHANGED nonAuthVars

\* cookies = context.cookies() (line 152)
LoginCookies ==
    /\ pc = "L_cookies"
    /\ \/ /\ pc' = "L_close" /\ ctxCookies' \in CookieLists /\ copyIdx' = 1
          /\ UNCHANGED <<pw, browser, login, ensure>>
       \/ LoginExc("cookies") /\ UNCHANGED <<ctxCookies, copyIdx>>
    /\ UNCHANGED <<cmd, twofa, cookieFile, jar, jar0, file0, url, reached, loaded,
                   probe, probeUrl, refresh>>
    /\ UNCHANGED nonAuthVars

\* browser.close() (line 153)
LoginClose ==
    /\ pc = "L_close"
    /\ browser' = "closed"
    /\ pc' = IF ctxCookies = <<>> THEN "L_save" ELSE "L_copy"
    /\ UNCHANGED <<cmd, twofa, cookieFile, jar, jar0, file0, pw, url, ctxCookies,
                   copyIdx, reached, loaded, probe, probeUrl, refresh, login, ensure>>
    /\ UNCHANGED nonAuthVars

\* one turn of `for cookie in cookies:` (lines 156-169); int(cookie['expires'])
\* is the statement that can raise
LoginCopy ==
    /\ pc = "L_copy"
    /\ \/ /\ jar' = SetCookie(jar, ctxCookies[copyIdx])
          /\ copyIdx' = copyIdx + 1
          /\ pc' = IF copyIdx = Len(ctxCookies) THEN "L_save" ELSE "L_copy"
          /\ UNCHANGED <<pw, browser, login, ensure>>
       \/ LoginExc("copy") /\ UNCHANGED <<jar, copyIdx>>
    /\ UNCHANGED <<cmd, twofa, cookieFile, jar0, file0, url, ctxCookies, reached,
                   loaded, probe, probeUrl, refresh>>
    /\ UNCHANGED nonAuthVars

\* self.save_cookies() and the success message (lines 171-172)
LoginSave ==
    /\ pc = "L_save"
    /\ \/ /\ cookieFile' = FileOf(jar)
          /\ pc' = "done" /\ pw' = "stopped" /\ login' = "success"
          /\ ensure' = IF cmd = "ensure" THEN "returned" ELSE ensure
          /\ UNCHANGED browser
       \/ /\ cookieFile' \in FailedSaves(cookieFile)
          /\ LoginExc("save")
    /\ UNCHANGED <<cmd, twofa, jar, jar0, file0, url, ctxCookies, copyIdx, reached,
                   loaded, probe, probeUrl, refresh>>
    /\ UNCHANGED nonAuthVars

-----------------------------------------------------------------------------
(* refresh_session_with_persistent_cookies (lines 178-288) *)

\* An exception at `step` that no inner handler caught: the `with` block ends
\* (playwright stops), the handler of lines 286-288 returns False; no
\* browser.close() runs on this path.
RefreshExc(step) ==
    /\ pc' = "E_next" /\ pw' = "stopped" /\ browser' = browser
    /\ refresh' = IF RefreshInTry(step) THEN "false" ELSE "raised"

\* p.firefox.launch(headless=True) (line 186)
RefreshLaunch ==
    /\ pc = "R_launch"
    /\ \/ /\ pc' = "R_context" /\ pw' = "running" /\ browser' = "open"
          /\ UNCHANGED refresh
       \/ RefreshExc("launch")
    /\ UNCHANGED <<cmd, twofa, cookieFile, jar, jar0, file0, url, ctxCookies, copyIdx,
                   reached, loaded, probe, probeUrl, login, ensure>>
    /\ UNCHANGED nonAuthVars

\* browser.new_context(...) (lines 189-194)
RefreshNewContext ==
    /\ pc = "R_context"
    /\ \/ /\ pc' = "R_seed"
          /\ UNCHANGED <<pw, browser, refresh>>
       \/ RefreshExc("new_context")
    /\ UNCHANGED <<cmd, twofa, cookieFile, jar, jar0, file0, url, ctxCookies, copyIdx,
                   reached, loaded, probe, probeUrl, login, ensure>>
    /\ UNCHANGED nonAuthVars

\* context.add_cookies(playwright_cookies) (lines 197-212)
RefreshSeed ==
    /\ pc = "R_seed"
    /\ \/ /\ pc' = "R_goto"
          /\ UNCHANGED <<pw, browser, refresh>>
       \/ RefreshExc("seed")
    /\ UNCHANGED <<cmd, twofa, cookieFile, jar, jar0, file0, url, ctxCookies, copyIdx,
                   reached, loaded, probe, probeUrl, login, ensure>>
    /\ UNCHANGED nonAuthVars

\* context.new_page(), page.goto(BASE_URL), the 2 s wait, and the test of
\* line 221 (lines 214-221)
RefreshGoto ==
    /\ pc = "R_goto"
    /\ \/ \E u \in Urls :
             /\ url' = u
             /\ pc' = IF Contains(u, "elosp.ugent.be/welcome") THEN "R_click"
                      ELSE "R_final"
             /\ UNCHANGED <<pw, browser, refresh>>
       \/ RefreshExc("goto") /\ UNCHANGED url
    /\ UNCHANGED <<cmd, twofa, cookieFile, jar, jar0, file0, ctxCookies, copyIdx,
                   reached, loaded, probe, probeUrl, login, ensure>>
    /\ UNCHANGED nonAuthVars

\* click 'Ufora login', wait 3 s, test for the account picker (lines 225-231);
\* an exception is caught at line 252
RefreshClickLogin ==
    /\ pc = "R_click"
    /\ \/ \E u \in Urls :
             /\ url' = u
             /\ pc' = IF Contains(u, "login.microsoftonline.com")
                         /\ Contains(u, "select_account")
                      THEN "R_account" ELSE "R_waithome"
       \/ /\ pc' = "R_final" /\ UNCHANGED url
    /\ UNCHANGED <<cmd, twofa, cookieFile, jar, jar0, file0, pw, browser, ctxCookies,
                   copyIdx, reached, loaded, probe, probeUrl, refresh, login, ensure>>
    /\ UNCHANGED nonAuthVars

\* click the signed-in account and wait for '**/d2l/home**' (lines 235-239);
\* an exception is caught at line 240
RefreshSelectAccount ==
    /\ pc = "R_account"
    /\ \/ \E u \in {v \in Urls : MatchesHomeGlob(v)} :
             url' = u /\ pc' = "R_final"
       \/ \E u \in Urls : url' = u /\ pc' = "R_alt"
    /\ UNCHANGED <<cmd, twofa, cookieFile, jar, jar0, file0, pw, browser, ctxCookies,
                   copyIdx, reached, loaded, probe, probeUrl, refresh, login, ensure>>
    /\ UNCHANGED nonAuthVars

\* the alternative selector (lines 243-247); a bare except swallows a failure
RefreshAltSelector ==
    /\ pc = "R_alt"
    /\ \/ \E u \in {v \in Urls : MatchesHomeGlob(v)} : url' = u
       \/ \E u \in Urls : url' = u
    /\ pc' = "R_final"
    /\ UNCHANGED <<cmd, twofa, cookieFile, jar, jar0, file0, pw, browser, ctxCookies,
                   copyIdx, reached, loaded, probe, probeUrl, refresh, login, ensure>>
    /\ UNCHANGED nonAuthVars

\* not at the account picker: page.wait_for_url('**/d2l/home**') (line 250);
\* an exception is caught at line 252
RefreshWaitHome ==
    /\ pc = "R_waithome"
    /\ \/ \E u \in {v \in Urls : MatchesHomeGlob(v)} : url' = u
       \/ \E u \in Urls : url' = u
    /\ pc' = "R_final"
    /\ UNCHANGED <<cmd, twofa, cookieFile, jar, jar0, file0, pw, browser, ctxCookies,
                   copyIdx, reached, loaded, probe, probeUrl, refresh, login, ensure>>
    /\ UNCHANGED nonAuthVars

\* final_url = page.url and the test of line 258; the negative branch closes
\* the browser and returns False (lines 282-284)
RefreshFinalUrl ==
    /\ pc = "R_final"
    /\ IF RefreshAuthenticated(url)
       THEN /\ pc' = "R_cookies"
            /\ UNCHANGED <<pw, browser, refresh>>
       ELSE /\ pc' = "E_next" /\ pw' = "stopped"
            /\ browser' = "closed" /\ refresh' = "false"
    /\ UNCHANGED <<cmd, twofa, cookieFile, jar, jar0, file0, url, ctxCookies, copyIdx,
                   reached, loaded, probe, probeUrl, login, ensure>>
    /\ UNCHANGED nonAuthVars

\* new_cookies = context.cookies() (line 260)
RefreshCookies ==
    /\ pc = "R_cookies"
    /\ \/ /\ ctxCookies' \in CookieLists /\ copyIdx' = 1
          /\ pc' = IF ctxCookies' = <<>> THEN "R_close" ELSE "R_copy"
          /\ UNCHANGED <<pw, browser, refresh>>
       \/ RefreshExc("cookies") /\ UNCHANGED <<ctxCookies, copyIdx>>
    /\ UNCHANGED <<cmd, twofa, cookieFile, jar, jar0, file0, url, reached, loaded,
                   probe, probeUrl, login, ensure>>
    /\ UNCHANGED nonAuthVars

\* one turn of `for cookie in new_cookies:` (lines 263-275)
RefreshCopy ==
    /\ pc = "R_copy"
    /\ \/ /\ jar' = SetCookie(jar, ctxCookies[copyIdx])
          /\ copyIdx' = copyIdx + 1
          /\ pc' = IF copyIdx = Len(ctxCookies) THEN "R_close" ELSE "R_copy"
          /\ UNCHANGED <<pw, browser, refresh>>
       \/ RefreshExc("copy") /\ UNCHANGED <<jar, copyIdx>>
    /\ UNCHANGED <<cmd, twofa, cookieFile, jar0, file0, url, ctxCookies, reached,
                   loaded, probe, probeUrl, login, ensure>>
    /\ UNCHANGED nonAuthVars

\* browser.close() (line 277)
RefreshClose ==
    /\ pc = "R_close"
    /\ browser' = "closed" /\ pc' = "R_save"
    /\ UNCHANGED <<cmd, twofa, cookieFile, jar, jar0, file0, pw, url, ctxCookies,
                   copyIdx, reached, loaded, probe, probeUrl, refresh, login, ensure>>
    /\ UNCHANGED nonAuthVars

\* self.save_cookies() and `return True` (lines 278-280)
RefreshSave ==
    /\ pc = "R_save"
    /\ \/ /\ cookieFile' = FileOf(jar)
          /\ pc' = "E_next" /\ pw' = "stopped" /\ refresh' = "true"
          /\ UNCHANGED browser
       \/ /\ cookieFile' \in FailedSaves(cookieFile)
          /\ RefreshExc("save")
    /\ UNCHANGED <<cmd, twofa, jar, jar0, file0, url, ctxCookies, copyIdx, reached,
                   loaded, probe, probeUrl, login, ensure>>
    /\ UNCHANGED nonAuthVars

-----------------------------------------------------------------------------

NextAuth ==
    \/ StartLogin \/ StartEnsure \/ Exit
    \/ LoadCookies \/ IsAuthenticated \/ EnsureStep
    \/ LoginLaunch \/ LoginNewContext \/ LoginNewPage \/ LoginGotoFill
    \/ LoginTwoFactor \/ LoginWaitUrl \/ LoginCookies \/ LoginClose
    \/ LoginCopy \/ LoginSave
    \/ RefreshLaunch \/ RefreshNewContext \/ RefreshSeed \/ RefreshGoto
    \/ RefreshClickLogin \/ RefreshSelectAccount \/ RefreshAltSelector
    \/ RefreshWaitHome \/ RefreshFinalUrl \/ RefreshCookies \/ RefreshCopy
    \/ RefreshClose \/ RefreshSave

SpecAuth == Init /\ [][NextAuth]_vars

-----------------------------------------------------------------------------
(* get_courses (lines 315-389) *)

\* An exception at `step` with `acc` in `courses`: the handler of lines
\* 385-389 prints and returns
GcExc(step, acc) ==
    /\ gpc' = "done"
    /\ IF GcInTry(step)
       THEN result' = HandlerResult(acc) /\ gcError' = TRUE /\ UNCHANGED gcRaised
       ELSE gcRaised' = TRUE /\ UNCHANGED <<result, gcError>>

\* lines 319-323
GetCourses ==
    /\ gpc = "idle"
    /\ gpc' = "versions" /\ verIdx' = 1 /\ apiUrl' = "none"
    /\ courses' = <<>> /\ response' = NoResponse
    /\ UNCHANGED <<requests, verStatus, pages, result, gcRaised, gcError>>
    /\ UNCHANGED nonGcVars

\* one turn of `for version in api_versions:` (lines 326-330)
TryVersion ==
    /\ gpc = "versions"
    /\ apiUrl' = api_versions[verIdx]
    /\ requests' = Append(requests, VersionRequest(verIdx))
    /\ \/ \E r \in Responses :
             /\ response' = r
             /\ verStatus' = Append(verStatus, r.status)
             /\ IF VersionAccepted(r) \/ verIdx = Len(api_versions)
                THEN gpc' = "check" /\ UNCHANGED verIdx
                ELSE gpc' = "versions" /\ verIdx' = verIdx + 1
             /\ UNCHANGED <<result, gcRaised, gcError>>
       \/ /\ GcExc("get", courses)
          /\ UNCHANGED <<response, verStatus, verIdx>>
    /\ UNCHANGED <<pages, courses>>
    /\ UNCHANGED nonGcVars

\* lines 332-334
CheckResponse ==
    /\ gpc = "check"
    /\ IF NoVersionWorked(response)
       THEN gpc' = "done" /\ result' = <<>>
       ELSE gpc' = "loop" /\ UNCHANGED result
    /\ UNCHANGED <<verIdx, apiUrl, response, requests, verStatus, pages, courses,
                   gcRaised, gcError>>
    /\ UNCHANGED nonGcVars

\* `while response:` (line 337) and `return courses` (line 383)
LoopTest ==
    /\ gpc = "loop"
    /\ IF Truthy(response)
       THEN gpc' = "page" /\ UNCHANGED result
       ELSE gpc' = "done" /\ result' = courses
    /\ UNCHANGED <<verIdx, apiUrl, response, requests, verStatus, pages, courses,
                   gcRaised, gcError>>
    /\ UNCHANGED nonGcVars

\* the loop body up to the paging decision (lines 338-372, 376-381)
ProcessPage ==
    /\ gpc = "page"
    /\ LET b == response.body IN
       IF ~b.json
       THEN /\ GcExc("json", courses)
            /\ UNCHANGED <<pages, courses, response>>
       ELSE /\ pages' = Append(pages, b)
            /\ IF ItemsRaise(b.items)
               THEN /\ courses' = courses \o CoursesOf(ReadBeforeRaise(b.items))
                    /\ GcExc("items", courses')
                    /\ UNCHANGED response
               ELSE /\ courses' = courses \o CoursesOf(b.items)
                    /\ IF NextBookmark(b) # "none"
                       THEN gpc' = "next" /\ UNCHANGED response
                       ELSE gpc' = "loop" /\ response' = NoResponse
                    /\ UNCHANGED <<result, gcRaised, gcError>>
    /\ UNCHANGED <<verIdx, apiUrl, requests, verStatus>>
    /\ UNCHANGED nonGcVars

\* response = self.session.get(next_url) (lines 374-375)
FetchNext ==
    /\ gpc = "next"
    /\ Len(pages) < MaxPages
    /\ requests' = Append(requests, NextRequest(apiUrl, response.body))
    /\ \/ /\ response' \in Responses
          /\ gpc' = "loop"
          /\ UNCHANGED <<result, gcRaised, gcError>>
       \/ /\ GcExc("get", courses)
          /\ UNCHANGED response
    /\ UNCHANGED <<verIdx, apiUrl, verStatus, pages, courses>>
    /\ UNCHANGED nonGcVars

NextCourses ==
    \/ GetCourses \/ TryVersion \/ CheckResponse \/ LoopTest
    \/ ProcessPage \/ FetchNext

SpecCourses == Init /\ [][NextCourses]_vars

\* get_courses runs sequentially: once called, its next statement is executed
\* (a request returns a response or raises).  The pages followed under the
\* fairness condition are bounded by MaxFairPages.
GcStep ==
    \/ TryVersion \/ CheckResponse \/ LoopTest \/ ProcessPage
    \/ (Len(pages) < MaxFairPages /\ FetchNext)

NextCoursesFair == GetCourses \/ GcStep

SpecCoursesFair == Init /\ [][NextCoursesFair]_vars /\ WF_vars(GcStep)

-----------------------------------------------------------------------------
(* One enrollment item turned into a course record (lines 346-367) *)

\* the names and codes an active course offering can carry
RawNames == UNION {[1..n -> Pieces] : n \in 0..MaxNameLen}
RawCodes == {<<>>, <<"E01">>, <<"Systems">>, <<"E01", Sep, "Systems">>}

RecordInputs == rawName \in RawNames /\ rawCode \in RawCodes /\ record = NoRecord

InitRecord ==
    AuthIdle /\ CoursesIdle /\ RecordInputs /\ ContentIdle /\ CommandIdle
    /\ DownloadIdle /\ TimetableIdle

\* the body of `if ... == 3 and access.get('IsActive'):` for one item
BuildRecord ==
    /\ record = NoRecord
    /\ record' = CourseRecord([id |-> 1, typeId |-> 3, isActive |-> TRUE,
                               wellFormed |-> TRUE, name |-> rawName,
                               code |-> rawCode, start |-> StartEmpty])
    /\ UNCHANGED <<rawName, rawCode>>
    /\ UNCHANGED nonRecVars

NextRecord == BuildRecord

SpecRecord == InitRecord /\ [][NextRecord]_vars

-----------------------------------------------------------------------------
(* The materials and download commands up to the content listing
   (lines 692-714, 782-820) and get_course_content (lines 424-562) *)

\* save_config raised in the courses command
KcExc ==
    /\ configFile' \in FailedConfigSaves(configFile)
    /\ kEnded' = "raised" /\ kpc' = "done"

\* the courses command up to the list (lines 643-647): ensure_authenticated
\* (SpecAuth) and get_courses (SpecCourses) have returned
CoursesCommand ==
    /\ kpc = "idle" /\ cpc = "idle"
    /\ course_list' \in CourseLists
    /\ current_year' \in Years
    /\ kpc' = "listed"
    /\ UNCHANGED <<filtered_courses, displayed, configFile, kEnded>>
    /\ UNCHANGED nonKcVars

\* lines 649-682: the early returns, the filter, the printed table
DisplayCourses ==
    /\ kpc = "listed"
    /\ LET kept == FilterCourses(course_list, current_year)
       IN IF course_list = <<>>
          THEN /\ kEnded' = "no_courses" /\ kpc' = "done"
               /\ UNCHANGED <<filtered_courses, displayed>>
          ELSE /\ filtered_courses' = kept
               /\ IF kept = <<>>
                  THEN /\ kEnded' = "none_this_year" /\ kpc' = "done"
                       /\ UNCHANGED displayed
                  ELSE /\ displayed' = TableRows(kept)
                       /\ kpc' = "save" /\ UNCHANGED kEnded
    /\ UNCHANGED <<course_list, current_year, configFile>>
    /\ UNCHANGED nonKcVars

\* lines 685-689: load_config, config['courses'] = filtered_courses,
\* save_config
SaveCourses ==
    /\ kpc = "save"
    /\ IF configFile.state = "corrupt"
       THEN kEnded' = "raised" /\ kpc' = "done" /\ UNCHANGED configFile
       ELSE \/ /\ configFile' = ConfigOf(filtered_courses)
               /\ kEnded' = "saved" /\ kpc' = "done"
            \/ KcExc
    /\ UNCHANGED <<course_list, current_year, filtered_courses, displayed>>
    /\ UNCHANGED nonKcVars

\* materials <course_id> / download <course_id> up to `url` (lines 696-709,
\* 788-815): the saved list is read, the ID is checked, and only for a valid
\* ID the session is built and ensure_authenticated (SpecAuth) runs
StartContentCommand ==
    /\ cpc = "idle" /\ kpc \in {"idle", "done"}
    /\ \E c \in {"materials", "download"}, typed \in TypedIds :
          LET id == ParseInt(typed)
              saved == SavedCourses(configFile)
          IN /\ ccmd' = c /\ course_id' = id
             /\ IF configFile.state = "corrupt"
                THEN /\ cEnded' = "raised" /\ cpc' = "done"
                     /\ UNCHANGED <<course, contentUrl>>
                ELSE IF ~ValidCourseId(id, Len(saved))
                THEN /\ cEnded' = "invalid" /\ cpc' = "done"
                     /\ UNCHANGED <<course, contentUrl>>
                ELSE IF ~InRange(saved, id - 1)
                THEN /\ cEnded' = "raised" /\ cpc' = "done"
                     /\ UNCHANGED <<course, contentUrl>>
                ELSE /\ cEnded' = "resolved" /\ cpc' = "toc"
                     /\ course' = PyIndex(saved, id - 1)
                     /\ contentUrl' = course'.content_url
    /\ UNCHANGED <<tocUrl, gccUrl, tocStatus, tocOk, contentReqs, soup, modules,
                   modIdx, nestIdx, fetched, dropped, cresult, cError>>
    /\ UNCHANGED nonCcVars

\* set_table_of_contents_state(session, url) (lines 584-612)
SetTableOfContentsState ==
    /\ cpc = "toc"
    /\ tocUrl' = contentUrl
    /\ contentReqs' = Append(contentReqs, [url |-> TocEndpoint(contentUrl), mId |-> 0])
    /\ \E completed \in BOOLEAN, st \in Statuses :
          /\ tocStatus' = IF completed THEN st ELSE 0
          /\ tocOk' = IF SetTocResult(completed, st) THEN "true" ELSE "false"
    /\ cpc' = "gate"
    /\ UNCHANGED <<ccmd, contentUrl, gccUrl, soup, modules, modIdx, nestIdx,
                   fetched, dropped, cresult, cError>>
    /\ UNCHANGED <<course_id, course, cEnded>>
    /\ UNCHANGED nonCcVars

\* lines 711-714 and 817-820: return, or call get_course_content(url)
AfterTableOfContents ==
    /\ cpc = "gate"
    /\ IF ProceedsToContent(tocOk)
       THEN cpc' = "fetch" /\ gccUrl' = contentUrl
       ELSE cpc' = "done" /\ UNCHANGED gccUrl
    /\ UNCHANGED <<ccmd, contentUrl, tocUrl, tocStatus, tocOk, contentReqs, soup,
                   modules, modIdx, nestIdx, fetched, dropped, cresult, cError>>
    /\ UNCHANGED <<course_id, course, cEnded>>
    /\ UNCHANGED nonCcVars

\* lines 428-448: fetch and parse the page, find the module items
FetchContent ==
    /\ cpc = "fetch"
    /\ contentReqs' = Append(contentReqs, [url |-> gccUrl, mId |-> 0])
    /\ modules' = <<>> /\ modIdx' = 1
    /\ \/ \E p \in ContentPages :
             /\ soup' = p
             /\ IF ~p.toc \/ p.items = <<>>
                THEN cpc' = "done" /\ cresult' = <<>>
                ELSE cpc' = "modules" /\ UNCHANGED cresult
             /\ UNCHANGED cError
       \/ \* the request raises: lines 558-562
          /\ cpc' = "done" /\ cresult' = <<>> /\ cError' = TRUE
          /\ UNCHANGED soup
    /\ UNCHANGED <<ccmd, contentUrl, tocUrl, gccUrl, tocStatus, tocOk, nestIdx,
                   fetched, dropped>>
    /\ UNCHANGED <<course_id, course, cEnded>>
    /\ UNCHANGED nonCcVars

\* one turn of `for module_list in module_lists:` (lines 451-465)
RegisterModule ==
    /\ cpc = "modules"
    /\ LET it == soup.items[modIdx]
           materials == ExtractMaterials(it.rows)
       IN modules' = IF it.heading # "" /\ Registers(materials)
                     THEN PutModule(modules, it.heading, materials)
                     ELSE modules
    /\ IF modIdx < Len(soup.items)
       THEN modIdx' = modIdx + 1 /\ UNCHANGED <<cpc, nestIdx>>
       ELSE cpc' = "nested" /\ nestIdx' = 1 /\ UNCHANGED modIdx
    /\ UNCHANGED <<ccmd, contentUrl, tocUrl, gccUrl, tocStatus, tocOk, contentReqs,
                   soup, fetched, dropped, cresult, cError>>
    /\ UNCHANGED <<course_id, course, cEnded>>
    /\ UNCHANGED nonCcVars

\* one turn of `for nested_item in filtered_nested:` up to the request
\* (lines 477-498), or the end of the loop
ResolveNested ==
    /\ cpc = "nested"
    /\ LET cands == filtered_nested(soup.tree)
       IN IF nestIdx > Len(cands)
          THEN cpc' = "output" /\ UNCHANGED nestIdx
          ELSE IF Resolves(soup.tree, cands[nestIdx])
               THEN cpc' = "details" /\ UNCHANGED nestIdx
               ELSE nestIdx' = nestIdx + 1 /\ UNCHANGED cpc
    /\ UNCHANGED <<ccmd, contentUrl, tocUrl, gccUrl, tocStatus, tocOk, contentReqs,
                   soup, modules, modIdx, fetched, dropped, cresult, cError>>
    /\ UNCHANGED <<course_id, course, cEnded>>
    /\ UNCHANGED nonCcVars

\* An exception at `step` while the subfolder of candidate c is fetched:
\* inside the inner `try:` the handler of lines 538-540 prints a warning and
\* goes on with the next candidate; outside it the handler of lines 558-562
\* returns the empty list
SubfolderExc(step, c) ==
    /\ dropped' = Append(dropped, c)
    /\ IF NestedInTry(step)
       THEN /\ cpc' = "nested" /\ nestIdx' = nestIdx + 1
            /\ UNCHANGED <<cresult, cError>>
       ELSE /\ cpc' = "done" /\ cresult' = <<>> /\ cError' = TRUE
            /\ UNCHANGED nestIdx

\* lines 502-512: the module-details request
ModuleDetails ==
    /\ cpc = "details"
    /\ LET c == filtered_nested(soup.tree)[nestIdx]
       IN /\ contentReqs' = Append(contentReqs, [url |-> DetailsEndpoint(gccUrl),
                                                  mId |-> soup.tree[c].fid])
          /\ \/ cpc' = "refetch" /\ UNCHANGED <<nestIdx, dropped, cresult, cError>>
             \/ SubfolderExc("details", c)
    /\ UNCHANGED <<ccmd, contentUrl, tocUrl, gccUrl, tocStatus, tocOk, soup,
                   modules, modIdx, fetched>>
    /\ UNCHANGED <<course_id, course, cEnded>>
    /\ UNCHANGED nonCcVars

\* lines 515-536: fetch content_url again, extract, attach the subfolder
Refetch ==
    /\ cpc = "refetch"
    /\ LET c == filtered_nested(soup.tree)[nestIdx]
       IN /\ contentReqs' = Append(contentReqs, [url |-> gccUrl, mId |-> 0])
          /\ \/ \E p \in RefetchPages :
                   /\ modules' = AttachSubfolder(modules, parent_name(soup.tree, c),
                                    [name |-> folder_name(soup.tree, c),
                                     materials |-> PageMaterials(p)])
                   /\ fetched' = Append(fetched, [cand |-> c, page |-> p,
                                                  at |-> Len(contentReqs)])
                   /\ cpc' = "nested" /\ nestIdx' = nestIdx + 1
                   /\ UNCHANGED <<dropped, cresult, cError>>
             \/ /\ \E step \in {"refetch", "extract"} : SubfolderExc(step, c)
                /\ UNCHANGED <<modules, fetched>>
    /\ UNCHANGED <<ccmd, contentUrl, tocUrl, gccUrl, tocStatus, tocOk, soup,
                   modIdx>>
    /\ UNCHANGED <<course_id, course, cEnded>>
    /\ UNCHANGED nonCcVars

\* lines 542-556
ReturnModules ==
    /\ cpc = "output"
    /\ cresult' = [i \in 1..Len(modules) |-> module_entry(modules[i])]
    /\ cpc' = "done"
    /\ UNCHANGED <<ccmd, contentUrl, tocUrl, gccUrl, tocStatus, tocOk, contentReqs,
                   soup, modules, modIdx, nestIdx, fetched, dropped, cError>>
    /\ UNCHANGED <<course_id, course, cEnded>>
    /\ UNCHANGED nonCcVars

NextContent ==
    \/ CoursesCommand \/ DisplayCourses \/ SaveCourses
    \/ StartContentCommand \/ SetTableOfContentsState \/ AfterTableOfContents
    \/ FetchContent \/ RegisterModule \/ ResolveNested \/ ModuleDetails
    \/ Refetch \/ ReturnModules

SpecContent == Init /\ [][NextContent]_vars

-----------------------------------------------------------------------------
(* download_materials (lines 752-779) and download_file (lines 565-580) *)

\* the handler of lines 578-580, or the exception leaving download_file
DfExc(step) ==
    IF DfInTry(step)
    THEN /\ dfResult' = "false" /\ dpc' = "returned"
         /\ dfCalls' = Append(dfCalls, [item |-> dlIdx, result |-> FALSE])
         /\ dfExcAt' = step
         /\ UNCHANGED dfRaised
    ELSE /\ dfRaised' = TRUE /\ dpc' = "done"
         /\ UNCHANGED <<dfResult, dfCalls, dfExcAt>>

\* the download command calls download_materials (lines 888, 901, 924, 981);
\* lines 754-755
DownloadMaterials ==
    /\ dpc = "idle"
    /\ dlItems' \in MaterialLists
    /\ hasProgress' \in BOOLEAN
    /\ dpc' = "loop" /\ dlIdx' = 1 /\ downloaded' = 0 /\ failed' = 0
    /\ UNCHANGED <<advanced, dfCalls, dfStatus, dfChunks, dfWritten, dfResult,
                   dfRaised, dfExcAt>>
    /\ UNCHANGED nonDlVars

\* one turn of `for item in materials:` up to the call of download_file
\* (lines 757-769), or `return downloaded, failed` (line 779)
NextMaterial ==
    /\ dpc = "loop"
    /\ IF dlIdx > Len(dlItems)
       THEN dpc' = "done" /\ UNCHANGED <<dlIdx, advanced>>
       ELSE IF Skipped(dlItems[dlIdx])
            THEN /\ advanced' = IF hasProgress THEN Append(advanced, dlIdx)
                                ELSE advanced
                 /\ dlIdx' = dlIdx + 1 /\ UNCHANGED dpc
            ELSE dpc' = "get" /\ UNCHANGED <<dlIdx, advanced>>
    /\ dfStatus' = 0 /\ dfChunks' = 0 /\ dfWritten' = 0 /\ dfResult' = "none"
    /\ dfExcAt' = "none"
    /\ UNCHANGED <<dlItems, hasProgress, downloaded, failed, dfCalls, dfRaised>>
    /\ UNCHANGED nonDlVars

\* response = self.session.get(url, stream=True) (line 570)
DfGet ==
    /\ dpc = "get"
    /\ \/ /\ dfStatus' \in Statuses /\ dfChunks' \in 0..MaxChunks
          /\ dpc' = "status"
          /\ UNCHANGED <<dfResult, dfCalls, dfRaised, dfExcAt>>
       \/ DfExc("get") /\ UNCHANGED <<dfStatus, dfChunks>>
    /\ UNCHANGED <<dlItems, hasProgress, dlIdx, downloaded, failed, advanced,
                   dfWritten>>
    /\ UNCHANGED nonDlVars

\* response.raise_for_status() (line 571)
DfRaiseForStatus ==
    /\ dpc = "status"
    /\ IF RaisesForStatus(dfStatus)
       THEN DfExc("raise_for_status")
       ELSE dpc' = "open" /\ UNCHANGED <<dfResult, dfCalls, dfRaised, dfExcAt>>
    /\ UNCHANGED <<dlItems, hasProgress, dlIdx, downloaded, failed, advanced,
                   dfStatus, dfChunks, dfWritten>>
    /\ UNCHANGED nonDlVars

\* open(dest_path, 'wb') (line 573)
DfOpen ==
    /\ dpc = "open"
    /\ \/ dpc' = "write" /\ UNCHANGED <<dfResult, dfCalls, dfRaised, dfExcAt>>
       \/ DfExc("open")
    /\ UNCHANGED <<dlItems, hasProgress, dlIdx, downloaded, failed, advanced,
                   dfStatus, dfChunks, dfWritten>>
    /\ UNCHANGED nonDlVars

\* one turn of `for chunk in response.iter_content(...)`: f.write(chunk)
\* (lines 574-575); after the last chunk the file is closed and the call
\* returns True (line 577)
DfWrite ==
    /\ dpc = "write"
    /\ \/ /\ dfWritten < dfChunks
          /\ dfWritten' = dfWritten + 1
          /\ UNCHANGED <<dpc, dfResult, dfCalls, dfRaised, dfExcAt>>
       \/ /\ dfWritten = dfChunks
          /\ dfResult' = "true" /\ dpc' = "returned"
          /\ dfCalls' = Append(dfCalls, [item |-> dlIdx, result |-> TRUE])
          /\ UNCHANGED <<dfWritten, dfRaised, dfExcAt>>
       \/ \* reading the next chunk, writing it or closing the file raises
          DfExc("write") /\ UNCHANGED dfWritten
    /\ UNCHANGED <<dlItems, hasProgress, dlIdx, downloaded, failed, advanced,
                   dfStatus, dfChunks>>
    /\ UNCHANGED nonDlVars

\* lines 769-776: count the result, advance the progress task
CountResult ==
    /\ dpc = "returned"
    /\ IF dfResult = "true"
       THEN downloaded' = downloaded + 1 /\ UNCHANGED failed
       ELSE failed' = failed + 1 /\ UNCHANGED downloaded
    /\ advanced' = IF hasProgress THEN Append(advanced, dlIdx) ELSE advanced
    /\ dlIdx' = dlIdx + 1 /\ dpc' = "loop"
    /\ UNCHANGED <<dlItems, hasProgress, dfCalls, dfStatus, dfChunks, dfWritten,
                   dfResult, dfRaised, dfExcAt>>
    /\ UNCHANGED nonDlVars

NextDownload ==
    \/ DownloadMaterials \/ NextMaterial \/ DfGet \/ DfRaiseForStatus
    \/ DfOpen \/ DfWrite \/ CountResult

SpecDownload == Init /\ [][NextDownload]_vars

-----------------------------------------------------------------------------
(* parse_timeedit_file, save_timetable_json, load_timetable_json *)

\* lines 9-18: read the file, set the locals
ParseTimeeditFile ==
    /\ tpc = "idle"
    /\ content' \in Files
    /\ tpc' = "scan" /\ lineIdx' = 1 /\ timetable' = <<>>
    /\ current_week' = NoWeek /\ current_date_str' = NoDate
    /\ current_day_courses' = <<>>
    /\ UNCHANGED <<json_data, reloaded, loadRaised>>
    /\ UNCHANGED nonTtVars

\* one turn of `for line in content.split('\n'):` (lines 20-89), or its end
ScanLine ==
    /\ tpc = "scan"
    /\ IF lineIdx > Len(content)
       THEN /\ tpc' = "flush"
            /\ UNCHANGED <<lineIdx, timetable, current_week, current_date_str,
                           current_day_courses>>
       ELSE /\ lineIdx' = lineIdx + 1 /\ UNCHANGED tpc
            /\ LET line == content[lineIdx]
               IN CASE line.kind = "header" ->
                         /\ timetable' = Flush(timetable, current_date_str,
                                               current_week, current_day_courses)
                         /\ current_week' = ParseInt(line.week)
                         /\ current_date_str' = line.date
                         /\ current_day_courses' = <<>>
                    [] line.kind = "course" /\ current_date_str # NoDate
                                            /\ current_week # NoWeek ->
                         /\ current_day_courses' =
                                Append(current_day_courses, CourseOf(line.raw))
                         /\ UNCHANGED <<timetable, current_week, current_date_str>>
                    [] OTHER ->
                         UNCHANGED <<timetable, current_week, current_date_str,
                                     current_day_courses>>
    /\ UNCHANGED <<content, json_data, reloaded, loadRaised>>
    /\ UNCHANGED nonTtVars

\* lines 92-96: flush the last bucket and return
FinalFlush ==
    /\ tpc = "flush"
    /\ timetable' = Flush(timetable, current_date_str, current_week,
                          current_day_courses)
    /\ tpc' = "parsed"
    /\ UNCHANGED <<content, lineIdx, current_week, current_date_str,
                   current_day_courses, json_data, reloaded, loadRaised>>
    /\ UNCHANGED nonTtVars

\* save_timetable_json(timetable, path) (lines 99-107)
SaveTimetableJson ==
    /\ tpc = "parsed"
    /\ json_data' = ToJson(timetable)
    /\ tpc' = "saved"
    /\ UNCHANGED <<content, lineIdx, timetable, current_week, current_date_str,
                   current_day_courses, reloaded, loadRaised>>
    /\ UNCHANGED nonTtVars

\* load_timetable_json(path) (lines 110-124)
LoadTimetableJson ==
    /\ tpc = "saved"
    /\ IF \A i \in 1..Len(json_data) : KeyParses(json_data[i].key)
       THEN reloaded' = FromJson(json_data) /\ UNCHANGED loadRaised
       ELSE loadRaised' = TRUE /\ UNCHANGED reloaded
    /\ tpc' = "loaded"
    /\ UNCHANGED <<content, lineIdx, timetable, current_week, current_date_str,
                   current_day_courses, json_data>>
    /\ UNCHANGED nonTtVars

NextTimetable ==
    \/ ParseTimeeditFile \/ ScanLine \/ FinalFlush \/ SaveTimetableJson
    \/ LoadTimetableJson

SpecTimetable == Init /\ [][NextTimetable]_vars

-----------------------------------------------------------------------------
(* Properties of the session manager, checked under SpecAuth *)

\* a function of the session manager has returned to ensure_authenticated
\* (or to the command) and nothing has run since
RefreshReturned == pc = "E_next" /\ refresh \in {"true", "false", "raised"}
LoginEnded == login \in {"success", "failed", "raised"}

\* the jar after every cookie of `list` was set, in order, starting from j
RECURSIVE ApplyCookies(_, _)
ApplyCookies(j, list) ==
    IF list = <<>> THEN j
    ELSE ApplyCookies([j EXCEPT ![Head(list).name] = Head(list).value], Tail(list))

\* C1 as stated: within a call of ensure_authenticated, login_with_browser is
\* started only after the silent refresh was attempted and returned false, and
\* neither refresh nor login is started when the probe returned true.
C1_LoginOnlyAfterFailedRefresh ==
    cmd = "ensure" =>
        /\ login # "none" => refresh = "false"
        /\ probe = "true" => refresh = "none" /\ login = "none"

\* C1 amended: within a call of ensure_authenticated, login_with_browser is
\* started either when load_cookies found no cookie file (then neither the
\* probe nor the refresh ran) or after the probe returned false and the silent
\* refresh was then attempted and returned false; the refresh is started only
\* after the probe returned false; neither is started when the probe returned
\* true.
C1_Chain ==
    cmd = "ensure" =>
        /\ login # "none" =>
              \/ loaded = "false" /\ probe = "none" /\ refresh = "none"
              \/ loaded = "true" /\ probe = "false" /\ refresh = "false"
        /\ refresh # "none" => loaded = "true" /\ probe = "false"
        /\ probe = "true" => refresh = "none" /\ login = "none"

C1_Witness ==
    cmd = "ensure" /\ login = "started" /\ probe = "false" /\ refresh = "false"

C3_RefreshTrueOnlyOnPortalHost ==
    RefreshReturned =>
        /\ refresh \in {"true", "false"}
        /\ refresh = "true" =>
              /\ url.host = PortalHost /\ url.host # IdpHost
              /\ jar = ApplyCookies(jar0, ctxCookies)
              /\ cookieFile = FileOf(jar)

\* C4: refresh_session_with_persistent_cookies never raises: whatever step
\* fails, it returns (false) to its caller.
C4_RefreshNeverRaises ==
    /\ refresh # "raised"
    /\ (cmd = "ensure" /\ ensure = "raised") =>
           (loaded = "none" \/ login = "raised")

\* an exception path of the refresh: it returned false with the browser never
\* closed, and the jar already changed (the failure was after the copy loop
\* began)
C4_Witness ==
    RefreshReturned /\ refresh = "false" /\ browser = "open" /\ jar # jar0

\* C5: no automation error leaves login_with_browser.
C5_LoginNeverRaises == login # "raised"

\* C6: is_authenticated returns true exactly when the probe request completed
\* and the host of its final URL is not the identity-provider host.
C6_ProbeTrueIffHostNotIdp ==
    (pc = "E_next" /\ probe # "none" /\ refresh = "none") =>
        (probe = "true" <=> (probeUrl # NoUrl /\ probeUrl.host # IdpHost))

\* C7: login_with_browser leaves the client's cookie store and the cookie file
\* as they were until wait_for_url(LOGGED_IN_URL) has returned; when it reports
\* success, every cookie of the browser context is in the client and the file
\* holds the jar as it is after the last copy.
C7_LoginCookies ==
    login # "none" =>
        /\ ~reached => jar = jar0 /\ cookieFile = file0
        /\ login = "success" =>
              /\ reached
              /\ jar = ApplyCookies(jar0, ctxCookies)
              /\ cookieFile = FileOf(jar)

C7_Witness ==
    login = "success" /\ Len(ctxCookies) = 2 /\ jar # jar0
    /\ ctxCookies[1].name # ctxCookies[2].name

-----------------------------------------------------------------------------
(* Properties of get_courses, checked under SpecCourses *)

GcReturned == gpc = "done" /\ ~gcRaised

\* the items of all pages, in the order received
RECURSIVE AllItems(_)
AllItems(ps) == IF ps = <<>> THEN <<>> ELSE Head(ps).items \o AllItems(Tail(ps))

\* the ids of the active course offerings among `items`, in order
ActiveOfferings(items) ==
    LET kept == SelectSeq(items, LAMBDA it : it.typeId = 3 /\ it.isActive = TRUE)
    IN [i \in 1..Len(kept) |-> kept[i].id]

SignalsMore(b) == b.hasMore /\ b.bookmark # "none"

\* the server answered with pages that signal more items with a bookmark,
\* followed by one page that does not
PagesThenLast(ps) ==
    /\ ps # <<>>
    /\ \A k \in 1..(Len(ps) - 1) : SignalsMore(ps[k])
    /\ ~SignalsMore(ps[Len(ps)])

\* C8: when the first request returned 200 and the server answered n pages
\* signalling more items with a bookmark and then one that does not,
\* get_courses issued exactly n+1 requests, each follow-up to the same API URL
\* with the previous page's bookmark, and returns the active course offerings
\* of all pages' items.
C8_Pagination ==
    (GcReturned /\ ~gcError /\ verStatus = <<200>> /\ PagesThenLast(pages)) =>
        /\ Len(requests) = Len(pages)
        /\ requests[1] = [ver |-> "1.28", bookmark |-> "none"]
        /\ \A k \in 2..Len(requests) :
              requests[k] = [ver |-> "1.28", bookmark |-> pages[k - 1].bookmark]
        /\ [i \in 1..Len(result) |-> result[i].id] = ActiveOfferings(AllItems(pages))

C8_Witness ==
    /\ GcReturned /\ ~gcError /\ verStatus = <<200>> /\ PagesThenLast(pages)
    /\ Len(pages) = 3 /\ Len(requests) = 3
    /\ pages[1].bookmark # pages[2].bookmark
    /\ Len(result) >= 2

\* C9: the versions are requested in the order 1.28, 1.9, 1.8, 1.4, 1.0; no
\* version is requested after one returned 200; every pagination request uses
\* the version that returned 200; when none of the five returns 200 the
\* result is the empty list.
C9_Versions ==
    /\ \A i \in 1..Len(requests) :
          IF requests[i].bookmark = "none"
          THEN /\ i <= Len(api_versions)
               /\ requests[i].ver = <<"1.28", "1.9", "1.8", "1.4", "1.0">>[i]
               /\ \A j \in 1..(i - 1) :
                     requests[j].bookmark = "none" /\ verStatus[j] # 200
          ELSE /\ verStatus # <<>>
               /\ verStatus[Len(verStatus)] = 200
               /\ requests[i].ver = api_versions[Len(verStatus)]
    /\ (GcReturned /\ \A j \in 1..Len(verStatus) : verStatus[j] # 200) =>
          /\ result = <<>>
          /\ ~gcError => Len(verStatus) = 5

C9_Witness ==
    /\ GcReturned /\ ~gcError
    /\ verStatus = <<404, 203, 200>>
    /\ Len(requests) = 5
    /\ requests[5].ver = "1.8"
    /\ result # <<>>

\* C10: an exception at any point of get_courses makes it return the empty
\* list: it does not raise and does not return what it had accumulated.
C10_ExceptionGivesEmpty ==
    /\ ~gcRaised
    /\ gcError => gpc = "done" /\ result = <<>>

\* the exception came on a later page, with courses already accumulated
C10_Witness ==
    GcReturned /\ gcError /\ Len(pages) >= 2 /\ courses # <<>>

\* C11: when get_courses returns its accumulated list (no exception was
\* handled, which is C10's case), the list holds one record for each received
\* item whose Type.Id is 3 and whose Access.IsActive is true, in the order
\* received, and no record for any other item.
C11_OneRecordPerActiveOffering ==
    (GcReturned /\ ~gcError) =>
        LET items == AllItems(pages)
            kept == {i \in 1..Len(items) : items[i].typeId = 3 /\ items[i].isActive}
            \* the position in `items` of the k-th kept item
            pos(k) == CHOOSE i \in kept : Cardinality({j \in kept : j <= i}) = k
        IN /\ Len(result) = Cardinality(kept)
           /\ \A k \in 1..Len(result) : result[k].id = items[pos(k)].id

\* two pages, each with an item that is left out, the records in page order
C11_Witness ==
    /\ GcReturned /\ ~gcError /\ Len(pages) = 2
    /\ pages[1].items = <<ItemGroup, ItemB>>
    /\ pages[2].items = <<ItemA, ItemInactive>>
    /\ Len(result) = 2 /\ result[1].id = 2 /\ result[2].id = 1

-----------------------------------------------------------------------------
(* Properties of one course record, checked under SpecRecord *)

\* C12: the record's name is the raw name with everything up to and including
\* the first " - " removed when the raw name holds " - " (the raw name
\* otherwise); its title is "code - name" when the code is non-empty and
\* differs from that name, and the name otherwise.
C12_NameAndTitle ==
    record # NoRecord =>
        LET seps == {i \in 1..Len(rawName) : rawName[i] = " - "}
            first == CHOOSE i \in seps : \A j \in seps : i <= j
            stripped == IF seps = {} THEN rawName
                        ELSE [k \in 1..(Len(rawName) - first) |-> rawName[first + k]]
        IN /\ record.name = stripped
           /\ record.title = IF rawCode # <<>> /\ rawCode # stripped
                             THEN rawCode \o <<" - ">> \o stripped
                             ELSE stripped

\* a raw name with two separators, and a code that differs from the name
C12_Witness ==
    /\ record # NoRecord
    /\ rawName = <<"E01", " - ", " - ">>
    /\ rawCode = <<"E01">>
    /\ record.name = <<" - ">>
    /\ record.title = <<"E01", " - ", " - ">>

-----------------------------------------------------------------------------
(* Properties of the materials and download commands and of
   get_course_content, checked under SpecContent *)

\* get_course_content returned the list built from `modules`
ContentListed == cpc = "done" /\ gccUrl # NoContentUrl /\ ~cError
                 /\ soup.toc /\ soup.items # <<>>

\* the accordion items that enclose item i
RECURSIVE Enclosing(_, _)
Enclosing(tree, i) ==
    IF tree[i].parent = 0 THEN {}
    ELSE {tree[i].parent} \cup Enclosing(tree, tree[i].parent)

\* the root items that enclose i and enclose no other root that encloses i
NearestRoots(tree, i) ==
    LET roots == {a \in Enclosing(tree, i) : tree[a].root}
    IN {a \in roots : \A b \in roots : a \notin Enclosing(tree, b)}

\* the label read for the nearest enclosing root of a candidate whose
\* subfolder was fetched
ParentLabel(tree, i) == LabelOf(tree, CHOOSE a \in NearestRoots(tree, i) : TRUE)

\* the subfolders a module entry carries
SubfoldersOf(m) == IF "subfolders" \in DOMAIN m THEN m.subfolders ELSE <<>>

\* the fetched subfolders whose nearest enclosing root is labelled `name`
FetchedUnder(name) ==
    SelectSeq(fetched, LAMBDA f : ParentLabel(soup.tree, f.cand) = name)

\* the materials of the linked rows of a module item
RowMaterials(rows) ==
    LET linked == SelectSeq(rows, LAMBDA r : r.link)
    IN [k \in 1..Len(linked) |->
           [title |-> linked[k].title, id |-> linked[k].id,
            type |-> IF linked[k].type = "" THEN "Unknown" ELSE linked[k].type]]

\* C13: in the materials and download commands get_course_content is called
\* for a content URL only after set_table_of_contents_state was called for
\* that URL and returned true; set_table_of_contents_state returns true
\* exactly when its request reported HTTP 200 (false on any other status or
\* on an exception); when it returns false no content-page request is issued.
C13_TocBeforeContent ==
    /\ tocOk # "none" => (tocOk = "true" <=> tocStatus = 200)
    /\ gccUrl # NoContentUrl => tocOk = "true" /\ tocUrl = gccUrl
    /\ \A i \in 1..Len(contentReqs) :
          contentReqs[i].url.leaf = "Home" =>
             /\ tocOk = "true"
             /\ contentReqs[i].url = tocUrl
             /\ \E j \in 1..(i - 1) :
                   contentReqs[j].url = [course |-> contentReqs[i].url.course,
                                         leaf |-> "PartialMainView"]
    /\ tocOk = "false" =>
          /\ gccUrl = NoContentUrl
          /\ cpc \in {"gate", "done"}
          /\ Len(contentReqs) = 1

C13_Witness ==
    /\ ccmd = "download" /\ cpc = "done" /\ tocOk = "true"
    /\ gccUrl = ContentUrlOf(2)
    /\ Len(contentReqs) >= 2 /\ contentReqs[2].url = ContentUrlOf(2)

\* C18: the result nests at most one level: a module entry holds name,
\* materials and (when there are some) subfolders; a subfolder entry holds
\* only name and materials; the subfolder of a candidate at any depth below a
\* root item is in the subfolder list of the module named by its nearest
\* enclosing root, so the subfolders of a module are exactly the fetched
\* candidates below the roots of that name, in page order.
C18_OneLevel ==
    ContentListed =>
        /\ \A i \in 1..Len(cresult) :
              /\ {"name", "materials"} \subseteq DOMAIN cresult[i]
              /\ DOMAIN cresult[i] \subseteq {"name", "materials", "subfolders"}
              /\ \A k \in 1..Len(SubfoldersOf(cresult[i])) :
                    DOMAIN SubfoldersOf(cresult[i])[k] = {"name", "materials"}
              /\ LET under == FetchedUnder(cresult[i].name)
                 IN /\ Len(SubfoldersOf(cresult[i])) = Len(under)
                    /\ \A k \in 1..Len(under) :
                          SubfoldersOf(cresult[i])[k].name
                              = LabelOf(soup.tree, under[k].cand)
        /\ \A k \in 1..Len(fetched) :
              /\ NearestRoots(soup.tree, fetched[k].cand) # {}
              /\ \E i \in 1..Len(cresult) :
                    cresult[i].name = ParentLabel(soup.tree, fetched[k].cand)

\* a subfolder and a subfolder of that subfolder, both under the root's module
C18_Witness ==
    /\ ContentListed /\ soup.tree = TreeDeep
    /\ Len(cresult) = 1 /\ cresult[1].name = "Week 1"
    /\ Len(SubfoldersOf(cresult[1])) = 2
    /\ SubfoldersOf(cresult[1])[1].name = "Slides"
    /\ SubfoldersOf(cresult[1])[2].name = "Extra"

\* the module items with heading h from which a material was extracted
WithMaterials(h) ==
    {i \in 1..Len(soup.items) :
        soup.items[i].heading = h /\ \E k \in 1..Len(soup.items[i].rows) :
                                        soup.items[i].rows[k].link}

\* the module items with heading h
Headed(h) == {i \in 1..Len(soup.items) : soup.items[i].heading = h}

Last(S) == CHOOSE i \in S : \A j \in S : j <= i

\* C19 as stated: every top-level module item with a non-empty heading is
\* registered as a module of the result under its heading; of the items with
\* one heading the result holds a single module, with the materials of the
\* last one.
C19_EveryHeadingRegistered ==
    ContentListed =>
        \A n \in 1..Len(soup.items) :
            LET h == soup.items[n].heading
            IN h # "" =>
                  /\ Cardinality({i \in 1..Len(cresult) : cresult[i].name = h}) = 1
                  /\ \A i \in 1..Len(cresult) :
                        cresult[i].name = h =>
                           cresult[i].materials
                               = RowMaterials(soup.items[Last(Headed(h))].rows)

\* C19 amended: every top-level module item with a non-empty heading and at
\* least one material is registered as a module of the result under its
\* heading, and an item without materials registers nothing; of the items
\* with one heading and materials the result holds a single module, with the
\* materials of the last one; a module of the result whose name no such item
\* carries was created for a subfolder, with no materials.
C19_HeadingWithMaterialsRegistered ==
    ContentListed =>
        /\ \A n \in 1..Len(soup.items) :
              LET h == soup.items[n].heading
              IN (h # "" /\ WithMaterials(h) # {}) =>
                    /\ Cardinality({i \in 1..Len(cresult) : cresult[i].name = h}) = 1
                    /\ \A i \in 1..Len(cresult) :
                          cresult[i].name = h =>
                             cresult[i].materials
                                 = RowMaterials(soup.items[Last(WithMaterials(h))].rows)
        /\ \A i \in 1..Len(cresult) :
              WithMaterials(cresult[i].name) = {} =>
                 /\ cresult[i].materials = <<>>
                 /\ SubfoldersOf(cresult[i]) # <<>>

\* two items named "Week 1", both with materials: the later one's are kept
C19_Witness ==
    /\ ContentListed /\ soup.items = <<ModWeek1, ModWeek1Late>>
    /\ Len(cresult) = 1 /\ cresult[1].name = "Week 1"
    /\ Len(cresult[1].materials) = 1 /\ cresult[1].materials[1].title = "note"

\* the candidates that resolve to (parent, folder id, folder name), in page
\* order
ResolvedCandidates ==
    LET t == soup.tree
        ok(i) == /\ ~t[i].root
                 /\ NearestRoots(t, i) # {}
                 /\ ParentLabel(t, i) \notin {"none", ""}
                 /\ LabelOf(t, i) \notin {"none", "", "Module: intro"}
                 /\ t[i].fid > 0
    IN SelectSeq([i \in 1..Len(t) |-> i], ok)

\* the positions of the module-details requests in the log
DetailsRequests ==
    SelectSeq([i \in 1..Len(contentReqs) |-> i],
              LAMBDA i : contentReqs[i].url.leaf = "ModuleDetailsPartial")

\* C20: for each resolved subfolder, in page order, get_course_content issues
\* exactly one module-details request carrying its folder id; when that
\* request completes it is immediately followed by one re-fetch of
\* content_url, and when the re-fetch completes the subfolder's materials are
\* those extracted from the re-fetched page; no two subfolders share a
\* request; the subfolder is appended to its parent module, which holds no
\* materials when step 2 did not register it. (A request that raises drops
\* the subfolder: its entry is not in the result.)
C20_SubfolderRequests ==
    ContentListed =>
        LET res == ResolvedCandidates
            det == DetailsRequests
            kept == SelectSeq(res, LAMBDA c : \A d \in 1..Len(dropped) : dropped[d] # c)
        IN /\ Len(det) = Len(res)
           /\ \A k \in 1..Len(det) :
                 contentReqs[det[k]] = [url |-> [course |-> gccUrl.course,
                                                  leaf |-> "ModuleDetailsPartial"],
                                        mId |-> soup.tree[res[k]].fid]
           /\ [k \in 1..Len(fetched) |-> fetched[k].cand] = kept
           /\ \A k \in 1..Len(fetched) :
                 /\ fetched[k].at \in 1..Len(contentReqs)
                 /\ contentReqs[fetched[k].at].mId = soup.tree[fetched[k].cand].fid
                 /\ contentReqs[fetched[k].at].url.leaf = "ModuleDetailsPartial"
                 /\ fetched[k].at + 1 <= Len(contentReqs)
                 /\ contentReqs[fetched[k].at + 1] = [url |-> gccUrl, mId |-> 0]
                 /\ fetched[k].at + 2 <= Len(contentReqs) =>
                       contentReqs[fetched[k].at + 2].url.leaf = "ModuleDetailsPartial"
                 /\ \A j \in 1..Len(fetched) : j # k => fetched[j].at # fetched[k].at
           /\ dropped = <<>> =>
                 Len(contentReqs) = 2 + 2 * Len(res)
           /\ \A i \in 1..Len(cresult) :
                 LET under == FetchedUnder(cresult[i].name)
                 IN /\ SubfoldersOf(cresult[i])
                          = [k \in 1..Len(under) |->
                                [name |-> LabelOf(soup.tree, under[k].cand),
                                 materials |-> PageMaterials(under[k].page)]]
                    /\ WithMaterials(cresult[i].name) = {} =>
                          cresult[i].materials = <<>>
           /\ \A k \in 1..Len(fetched) :
                 \E i \in 1..Len(cresult) :
                    cresult[i].name = ParentLabel(soup.tree, fetched[k].cand)

\* two subfolders fetched from different pages for a parent that step 2 did
\* not register
C20_Witness ==
    /\ ContentListed /\ soup.tree = TreeDeep
    /\ soup.items = <<ModWeek2Empty, ModWeek1Empty>>
    /\ dropped = <<>> /\ Len(fetched) = 2
    /\ fetched[1].page # fetched[2].page
    /\ Len(contentReqs) = 6
    /\ Len(cresult) = 1 /\ cresult[1].materials = <<>>
    /\ Len(SubfoldersOf(cresult[1])) = 2
    /\ SubfoldersOf(cresult[1])[2].materials # <<>>

-----------------------------------------------------------------------------
(* Properties of the downloader, checked under SpecDownload *)

\* C14: download_file returns true exactly when the response had a success
\* status and every chunk of it was written to dest_path; on an HTTP error
\* status or on any exception it returns false; it never raises.
C14_DownloadFileResult ==
    /\ ~dfRaised
    /\ dpc = "returned" =>
          LET call == dfCalls[Len(dfCalls)]
          IN /\ dfResult \in {"true", "false"}
             /\ call.result = (dfResult = "true")
             /\ dfResult = "true" <=>
                   (dfStatus \in {200, 203} /\ dfWritten = dfChunks
                    /\ dfExcAt = "none")
             /\ (dfStatus = 404 \/ dfExcAt # "none") => dfResult = "false"

\* a body of two chunks written whole
C14_Witness ==
    dpc = "returned" /\ dfResult = "true" /\ dfStatus = 200 /\ dfWritten = 2

\* C15: download_materials calls download_file exactly once for each material
\* whose type is neither "Assignment" nor "Discussion Topic", in order, and
\* never for a material of those types; downloaded + failed is the number of
\* non-skipped materials; a progress task that was given is advanced exactly
\* once per material, skipped ones included.
C15_SkipAndCount ==
    dpc = "done" =>
        LET n == Len(dlItems)
            wanted == {i \in 1..n : dlItems[i].type # "Assignment"
                                    /\ dlItems[i].type # "Discussion Topic"}
        IN /\ Len(dfCalls) = Cardinality(wanted)
           /\ \A i \in wanted :
                 Cardinality({c \in 1..Len(dfCalls) : dfCalls[c].item = i}) = 1
           /\ \A c \in 1..Len(dfCalls) :
                 /\ dfCalls[c].item \in wanted
                 /\ \A b \in 1..(c - 1) : dfCalls[b].item < dfCalls[c].item
           /\ downloaded + failed = Cardinality(wanted)
           /\ downloaded = Cardinality({c \in 1..Len(dfCalls) : dfCalls[c].result})
           /\ hasProgress => advanced = [i \in 1..n |-> i]

\* an assignment, a file that downloads, a discussion topic
C15_Witness ==
    /\ dpc = "done" /\ hasProgress
    /\ Len(dlItems) = 3
    /\ dlItems[1].type = "Assignment" /\ dlItems[2].type = "File"
    /\ dlItems[3].type = "Discussion Topic"
    /\ downloaded = 1 /\ failed = 0 /\ Len(advanced) = 3 /\ Len(dfCalls) = 1

-----------------------------------------------------------------------------
(* Properties of the timetable parser, checked under SpecTimetable *)

\* the keys of a mapping
KeysOf(table) == {<<table[i].date, table[i].week>> : i \in 1..Len(table)}

\* the list a mapping holds for a key
ListAt(table, k) ==
    table[CHOOSE i \in 1..Len(table) : <<table[i].date, table[i].week>> = k].courses

\* C16: for every timetable T that parse_timeedit_file produces,
\* save_timetable_json followed by load_timetable_json yields a mapping equal
\* to T: the same (date, week) keys, the week an integer, each with the same
\* ordered list of courses.
C16_RoundTrip ==
    tpc = "loaded" =>
        /\ ~loadRaised
        /\ Len(reloaded) = Len(timetable)
        /\ KeysOf(reloaded) = KeysOf(timetable)
        /\ \A k \in KeysOf(timetable) :
              /\ k[2] \in Nat
              /\ ListAt(reloaded, k) = ListAt(timetable, k)

\* two days, the weeks 43 and 5 (written "05"), reloaded
C16_Witness ==
    /\ tpc = "loaded" /\ Len(timetable) = 2
    /\ timetable[1].week = 43 /\ timetable[2].week = 5
    /\ Len(reloaded) = 2 /\ reloaded[1].week = 43
    /\ reloaded[2].week = 5 /\ reloaded[2].courses = timetable[2].courses
    /\ timetable[1].courses[1].professors = <<"Peeters", "Maes">>

\* the header lines followed by a course line before the next header or the
\* end of the file
FilledHeaders ==
    {i \in 1..Len(content) :
        /\ content[i].kind = "header"
        /\ \E j \in (i + 1)..Len(content) :
              /\ content[j].kind = "course"
              /\ \A m \in (i + 1)..(j - 1) : content[m].kind # "header"}

\* C17: no key of the result of parse_timeedit_file maps to an empty list: a
\* date header followed by no course line before the next header or the end
\* of the file produces no entry.
C17_NoEmptyBucket ==
    /\ \A i \in 1..Len(timetable) : timetable[i].courses # <<>>
    /\ tpc \in {"parsed", "saved", "loaded"} =>
          \A i \in 1..Len(timetable) :
             \E h \in FilledHeaders :
                /\ content[h].date = timetable[i].date
                /\ ParseInt(content[h].week) = timetable[i].week

\* a header, an empty line, the end of the file: the mapping is empty
C17_Witness ==
    /\ tpc = "parsed"
    /\ content = <<HeaderLine(<<"20-10-2025">>, <<"4", "3">>), EmptyLine>>
    /\ timetable = <<>>

\* parse_timeedit_file has returned
Parsed == tpc \in {"parsed", "saved", "loaded"}

\* the nearest date-header line before line j (0: none)
HeaderBefore(j) ==
    LET hs == {i \in 1..(j - 1) : content[i].kind = "header"}
    IN IF hs = {} THEN 0 ELSE Last(hs)

\* the (date, week) of the header line h
KeyAt(h) == <<content[h].date, ParseInt(content[h].week)>>

\* the courses of the given course lines, in file order
CoursesAt(S) ==
    LET picked == SelectSeq([j \in 1..Len(content) |-> j], LAMBDA j : j \in S)
    IN [n \in 1..Len(picked) |-> CourseOf(content[picked[n]].raw)]

\* the course lines whose nearest preceding header is line h
BucketOf(h) ==
    {j \in 1..Len(content) : content[j].kind = "course" /\ HeaderBefore(j) = h}

\* the course lines whose nearest preceding header carries the key k
LinesUnder(k) ==
    {j \in 1..Len(content) :
        /\ content[j].kind = "course"
        /\ HeaderBefore(j) # 0
        /\ KeyAt(HeaderBefore(j)) = k}

\* C21 as stated: parse_timeedit_file records each course line, in file
\* order, under the (date, week) of the nearest preceding date-header line; a
\* course line before every header and a line matching neither pattern are
\* ignored; the courses after the last header are included.
C21_EveryCourseLineRecorded ==
    Parsed =>
        /\ KeysOf(timetable) = {KeyAt(h) : h \in FilledHeaders}
        /\ \A k \in KeysOf(timetable) :
              ListAt(timetable, k) = CoursesAt(LinesUnder(k))

\* C21 amended: the result holds one entry per (date, week) of a header that
\* is followed by a course line; the entry lists, in file order, the course
\* lines whose nearest preceding header is the last such header with that
\* key (the lines after an earlier header with the same key are not in the
\* result); a course line before every header and a line matching neither
\* pattern are ignored; the courses after the last header are included.
C21_CourseLinesOfLastFilledHeader ==
    Parsed =>
        /\ KeysOf(timetable) = {KeyAt(h) : h \in FilledHeaders}
        /\ Len(timetable) = Cardinality(KeysOf(timetable))
        /\ \A k \in KeysOf(timetable) :
              ListAt(timetable, k)
                  = CoursesAt(BucketOf(Last({h \in FilledHeaders : KeyAt(h) = k})))

\* a course line before every header, a header, a line matching neither
\* pattern, a course line at the end of the file
C21_Witness ==
    /\ Parsed
    /\ content = <<CourseLine(RawLab), HeaderLine(<<"20-10-2025">>, <<"0", "5">>),
                   OtherLine, CourseLine(RawAlgo)>>
    /\ timetable = <<[date |-> <<"20-10-2025">>, week |-> 5,
                      courses |-> <<CourseOf(RawAlgo)>>]>>

\* the headers that carry the key k
HeadersOf(k) == {h \in 1..Len(content) : content[h].kind = "header" /\ KeyAt(h) = k}

\* C26: when the same (date, week) header occurs more than once and each
\* occurrence is followed by course lines, the mapping holds under that key
\* only the courses of the last occurrence: the earlier occurrences' courses
\* are replaced, not merged.
C26_LastOccurrenceReplaces ==
    Parsed =>
        \A k \in {KeyAt(h) : h \in FilledHeaders} :
            (Cardinality(HeadersOf(k)) > 1 /\ HeadersOf(k) \subseteq FilledHeaders) =>
                /\ k \in KeysOf(timetable)
                /\ ListAt(timetable, k) = CoursesAt(BucketOf(Last(HeadersOf(k))))
                /\ Cardinality({i \in 1..Len(timetable) :
                                   <<timetable[i].date, timetable[i].week>> = k}) = 1

\* the same header twice, a different course after each
C26_Witness ==
    /\ Parsed
    /\ content = <<HeaderLine(<<"20-10-2025">>, <<"4", "3">>), CourseLine(RawAlgo),
                   HeaderLine(<<"20-10-2025">>, <<"4", "3">>), CourseLine(RawLab)>>
    /\ timetable = <<[date |-> <<"20-10-2025">>, week |-> 43,
                      courses |-> <<CourseOf(RawLab)>>]>>

-----------------------------------------------------------------------------
(* Further properties of the session manager, checked under SpecAuth *)

\* C22: whenever refresh_session_with_persistent_cookies returns false, the
\* client's cookie store and the persisted cookie file are the same as before
\* the call, including when the failure occurs while persisting the jar after
\* the new cookies were copied.
C22_FailedRefreshLeavesCookies ==
    (RefreshReturned /\ refresh = "false") =>
        jar = jar0 /\ cookieFile = file0

\* C23: when ensure_authenticated returns normally the session is
\* authenticated: the probe succeeded, the silent refresh returned true, or
\* the interactive login succeeded (so that no command goes on to its portal
\* requests after an interactive login that failed).
C23_ReturnedMeansAuthenticated ==
    ensure = "returned" =>
        probe = "true" \/ refresh = "true" \/ login = "success"

-----------------------------------------------------------------------------
(* Further properties of get_courses, checked under SpecCourses *)

\* C24: if a follow-up page request of get_courses comes back with an HTTP
\* error status, get_courses stops paginating and returns the courses
\* accumulated from the earlier pages, without an error message and without
\* returning the empty list in their place.
C24_ErrorStatusStopsPaging ==
    (gpc = "done" /\ pages # <<>> /\ response.status >= 400) =>
        /\ ~gcError /\ ~gcRaised
        /\ result = courses
        /\ [i \in 1..Len(result) |-> result[i].id] = ActiveOfferings(AllItems(pages))
        /\ Len(requests) = Len(verStatus) + Len(pages)
        /\ SignalsMore(pages[Len(pages)])

\* two pages with courses, then an error status on the third request
C24_Witness ==
    /\ gpc = "done" /\ Len(pages) = 2 /\ response.status = 404
    /\ Len(requests) = 3 /\ Len(result) = 2

\* the pagination loop of lines 337-381 was entered
LoopEntered == verStatus # <<>> /\ verStatus[Len(verStatus)] = 200

\* every page received so far signalled more items with a bookmark, and the
\* bound of the model on the number of pages is reached
PageBoundReached ==
    /\ gpc = "next" /\ Len(pages) = MaxFairPages
    /\ \A k \in 1..Len(pages) : SignalsMore(pages[k])

\* C25: get_courses terminates for every sequence of server responses in
\* which some page does not signal more items, carries no bookmark, has an
\* error status or fails to parse (a started call returns unless every page
\* received signalled more items with a bookmark); the loop has no cap on
\* the number of pages and no check for a repeated bookmark: it returns from
\* the loop only after such a page or an exception, and never while the
\* server signals more items with a bookmark on every page.
C25_TerminatesUnlessAlwaysMore ==
    /\ []((gpc = "done" /\ LoopEntered) =>
             \/ gcError
             \/ response.status >= 400
             \/ pages # <<>> /\ ~SignalsMore(pages[Len(pages)]))
    /\ [](gpc \in {"loop", "page", "next"} =>
             \A k \in 1..(Len(pages) - 1) : SignalsMore(pages[k]))
    /\ (gpc \notin {"idle", "done"}) ~> (gpc = "done" \/ PageBoundReached)

\* every page carried the same bookmark and signalled more items: the next
\* request is about to be issued with that bookmark again
C25_Witness ==
    /\ PageBoundReached
    /\ \A k \in 1..Len(pages) : pages[k].bookmark = "bmA"
    /\ Len(requests) = MaxFairPages
    /\ \A k \in 2..Len(requests) : requests[k].bookmark = "bmA"

-----------------------------------------------------------------------------
(* Further properties of get_course_content, checked under SpecContent *)

\* C28: an exception raised while fetching one subfolder (the details
\* request, the re-fetch or the extraction) drops only that subfolder: the
\* function goes on and returns its list, with the modules registered from
\* the first pass and every other subfolder; it does not return the empty
\* list because of the exception.
C28_DropsOnlyThatSubfolder ==
    /\ dropped # <<>> => ~cError /\ cpc \in {"nested", "details", "refetch",
                                             "output", "done"}
    /\ (ContentListed /\ dropped # <<>>) =>
          /\ \A n \in 1..Len(soup.items) :
                LET h == soup.items[n].heading
                IN (h # "" /\ WithMaterials(h) # {}) =>
                      \E i \in 1..Len(cresult) :
                         /\ cresult[i].name = h
                         /\ cresult[i].materials
                                = RowMaterials(soup.items[Last(WithMaterials(h))].rows)
          /\ [k \in 1..Len(fetched) |-> fetched[k].cand]
                = SelectSeq(ResolvedCandidates,
                            LAMBDA c : \A d \in 1..Len(dropped) : dropped[d] # c)
          /\ \A d \in 1..Len(dropped) :
                /\ \E k \in 1..Len(ResolvedCandidates) : ResolvedCandidates[k] = dropped[d]
                /\ \A e \in 1..Len(dropped) : e # d => dropped[e] # dropped[d]
          /\ \A i \in 1..Len(cresult) :
                LET under == FetchedUnder(cresult[i].name)
                IN SubfoldersOf(cresult[i])
                      = [k \in 1..Len(under) |->
                            [name |-> LabelOf(soup.tree, under[k].cand),
                             materials |-> PageMaterials(under[k].page)]]
          /\ \A k \in 1..Len(fetched) :
                \E i \in 1..Len(cresult) :
                   cresult[i].name = ParentLabel(soup.tree, fetched[k].cand)
          /\ cresult = <<>> <=>
                /\ fetched = <<>>
                /\ \A n \in 1..Len(soup.items) :
                      soup.items[n].heading = "" \/ WithMaterials(soup.items[n].heading) = {}

\* of two subfolders under a registered module the first is dropped: the
\* module keeps its materials and the second subfolder
C28_Witness ==
    /\ ContentListed /\ soup.tree = TreeDeep
    /\ Len(dropped) = 1 /\ Len(fetched) = 1 /\ dropped[1] < fetched[1].cand
    /\ Len(cresult) = 1 /\ cresult[1].materials # <<>>
    /\ Len(SubfoldersOf(cresult[1])) = 1
    /\ SubfoldersOf(cresult[1])[1].name = "Extra"

-----------------------------------------------------------------------------
(* Properties of the courses, materials and download commands, checked under
   SpecContent *)

\* C27: the 1-based ID that the courses command displays for a course is the
\* ID by which materials and download later resolve that same course: when
\* the courses command has completed, the list saved under the config key
\* courses is exactly the displayed list in the displayed order; an ID below 1
\* or above the length of the saved list is rejected as invalid without any
\* network request.
C27_DisplayedIdResolves ==
    /\ kEnded = "saved" =>
          /\ SavedCourses(configFile) = filtered_courses
          /\ Len(displayed) = Len(filtered_courses)
          /\ \A i \in 1..Len(displayed) :
                /\ ParseInt(displayed[i].id) = i
                /\ displayed[i].title = filtered_courses[i].title
    /\ cEnded = "resolved" =>
          /\ kEnded = "saved"
          /\ \E i \in 1..Len(displayed) :
                /\ ParseInt(displayed[i].id) = course_id
                /\ course = filtered_courses[i]
                /\ course.title = displayed[i].title
          /\ contentUrl = ContentUrlOf(course.id)
    /\ (cpc # "idle" /\ configFile.state # "corrupt") =>
          (cEnded = "invalid" <=>
              (course_id < 1 \/ course_id > Len(SavedCourses(configFile))))
    /\ cEnded = "invalid" =>
          /\ cpc = "done" /\ contentReqs = <<>> /\ tocOk = "none"
          /\ contentUrl = NoContentUrl /\ gccUrl = NoContentUrl

\* the first course of the list was filtered out: ID 1 is the second course
\* of the list, and the command went on to request its pages
C27_Witness ==
    /\ kEnded = "saved" /\ course_list = CoursesOf(<<ItemOld, ItemB>>)
    /\ current_year = 2026
    /\ Len(displayed) = 1 /\ displayed[1].id = <<"1">>
    /\ cEnded = "resolved" /\ course_id = 1 /\ course.id = 2
    /\ contentUrl = ContentUrlOf(2) /\ Len(contentReqs) >= 2

=============================================================================
